---- MODULE Spec2Model ----
(***************************************************************************)
(* Serving runtime of AutoDSPyUI:                                          *)
(*   - the version-addressed model cache of                                *)
(*     autodspy/serving/model_manager.py (ModelManager), driven by a pool  *)
(*     of request threads                              (specification Spec) *)
(*   - the feedback recorder of autodspy/serving/feedback.py               *)
(*     (FeedbackService)                       (specification FeedbackSpec) *)
(*   - the training-data exporter of autodspy/serving/data_exporter.py     *)
(*     (DataExporter)                            (specification ExportSpec) *)
(*   - the feedback endpoint of dspyui/api/routes/feedback.py             *)
(*                                                (specification RouteSpec) *)
(*   - record_feedback called from several request threads at once         *)
(*                                           (specification ConcurrentSpec) *)
(*   - load_model step by step under its lock, with the registry moving    *)
(*     and the stage endpoint of dspyui/api/routes/models.py               *)
(*                                              (specification ServingSpec) *)
(*   - the same cache with a clock and a time to live                      *)
(*     (specification ResidencySpec), and under fair scheduling of the     *)
(*     request threads                    (specification FairResidencySpec) *)
(* Python strings are sequences of one-character strings, so that key      *)
(* formatting, prefix matching, splitting and parsing are computed as the  *)
(* code computes them.  None and "" are both the empty sequence wherever   *)
(* the code only tests a value for truthiness.                             *)
(***************************************************************************)
EXTENDS Integers, Sequences, FiniteSets, TLC

\* ---------------------------------------------------------------- bounds
NumThreads == 2
MaxLoads == 2
MaxTime == 2
MaxFeedback == 2
MaxRows == 2

Threads == 1..NumThreads

\* ---------------------------------------------------------------- inputs
None == <<>>
Names == { <<"m">>, <<"m", "@", "n">> }
Versions == { None, <<"1">> }
Aliases == { None, <<"c">>, <<"P">> }
Stages == { None, <<"P">> }
TTLs == { 0, 1 }

\* Content of the model registry the version lookups are answered from:
\* alias "c" points at version 7, no alias "P" exists (the lookup raises), and
\* the version in stage "P" is 3.
RegistryAlias(name, alias) == IF alias = <<"c">> THEN <<"7">> ELSE None
RegistryStage(name, stage) == IF stage = <<"P">> THEN <<"3">> ELSE None

\* The same content as the state of a registry that can be changed: the
\* version each alias of model "m" points at, and the stage each of its
\* versions is in.
RegistryContent ==
    [ aliases |-> (<<"c">> :> <<"7">>),
      stages |-> (<<"3">> :> <<"P">>) ]

\* ---------------------------------------------------------------- strings
Truthy(s) == s # None

startswith(s, prefix) ==
    /\ Len(s) >= Len(prefix)
    /\ SubSeq(s, 1, Len(prefix)) = prefix

Contains(s, ch) == \E i \in 1..Len(s) : s[i] = ch

\* s.split(ch)[-1]: what follows the last occurrence of ch, all of s if none
SplitLast(s, ch) ==
    IF Contains(s, ch)
    THEN LET i == CHOOSE j \in 1..Len(s) :
                      /\ s[j] = ch
                      /\ \A k \in (j + 1)..Len(s) : s[k] # ch
         IN SubSeq(s, i + 1, Len(s))
    ELSE s

\* ---------------------------------------------------------------- state
VARIABLES
    cache,          \* _cache: cache key -> CachedModel
    cache_enabled,  \* _cache_enabled
    cache_ttl,      \* _cache_ttl
    stats,          \* _stats: CacheStats
    lock,           \* _lock: the owning thread, 0 when free
    now,            \* datetime.now(), in seconds
    pc,             \* position of each request thread
    args,           \* arguments of each thread's call
    local,          \* load_model's local variables, per thread
    ret,            \* the most recently finished call: a (program, version) pair
                    \* ("value"), a ValueError ("error") or a count
    ghost,          \* observation only: store fetches, the one key loaded so far (while
                    \* it is the only one), disturbances, the address each entry came from
    registry,       \* the model registry: the version each alias and each stage of a
                    \* model points at
    mlflow_enabled,     \* get_config().mlflow_enabled and MLFLOW_INSTALLED
    _feedback_enabled,  \* FeedbackService._feedback_enabled
    _feedback_history,  \* FeedbackService._feedback_history
    uuids,              \* number of uuid4() values drawn so far
    emitted,            \* what the most recently finished call logged in the trace store
    fb_ret,             \* the most recently finished FeedbackService call: the method,
                        \* what it was given, and what it returned or raised
    fb_calls,           \* the record_feedback call each request thread is in
    trace_store,        \* the mlflow.log_feedback calls that returned, in order
    fb_done,            \* the record_feedback calls that have returned
    traces_df,          \* the DataFrame handed to the exporter
    export_args,        \* format, use_corrected_output, chunk_size of the export
    gen,                \* frame of the export_streaming generator
    yielded,            \* the chunks the generator has yielded so far
    exported,           \* what export_training_data returned
    query_ret           \* the most recently finished query_traces_with_feedback call:
                        \* what the trace store did, and how the call ended

manager_vars == << cache, cache_enabled, cache_ttl, stats, lock, pc, args, local, ret, ghost,
                  registry >>
feedback_vars == << _feedback_enabled, _feedback_history, uuids, emitted, fb_ret,
                   fb_calls, trace_store, fb_done >>
exporter_vars == << traces_df, export_args, gen, yielded, exported, query_ret >>

vars == << manager_vars, now, mlflow_enabled, feedback_vars, exporter_vars >>

NoArgs == [ op |-> "none", name |-> None, version |-> None, stage |-> None, alias |-> None ]
NoLocal == [ cache_key |-> None, model_uri |-> None ]
NoRet == [ kind |-> "none", count |-> 0 ]

\* ---------------------------------------------------------------- CachedModel
CachedModel(program, version, loaded_at) ==
    [ program |-> program, version |-> version, loaded_at |-> loaded_at, hit_count |-> 0 ]

\* (mutant) expiry at elapsed >= ttl
is_expired_AtTtl(cached, ttl) ==
    IF ttl <= 0
    THEN FALSE
    ELSE (now - cached.loaded_at) >= ttl

is_expired(cached, ttl) ==
    IF ttl <= 0
    THEN FALSE
    ELSE (now - cached.loaded_at) > ttl

CacheStats == [ total_loads |-> 0, cache_hits |-> 0, cache_misses |-> 0, invalidations |-> 0 ]

\* ---------------------------------------------------------------- ModelManager helpers
_build_model_uri(name, version, stage, alias) ==
    IF Truthy(version) THEN <<"models:", "/">> \o name \o <<"/">> \o version
    ELSE IF Truthy(alias) THEN <<"models:", "/">> \o name \o <<"@">> \o alias
    ELSE IF Truthy(stage) THEN <<"models:", "/">> \o name \o <<"@">> \o stage
    ELSE <<"models:", "/">> \o name \o <<"/", "latest">>

\* (mutant) stage is looked at before alias
_get_cache_key_StageFirst(name, version, stage, alias) ==
    IF Truthy(version) THEN name \o <<":", "v">> \o version
    ELSE IF Truthy(stage) THEN name \o <<"@">> \o stage
    ELSE IF Truthy(alias) THEN name \o <<"@">> \o alias
    ELSE name \o <<":", "latest">>

_get_cache_key(name, version, stage, alias) ==
    IF Truthy(version) THEN name \o <<":", "v">> \o version
    ELSE IF Truthy(alias) THEN name \o <<"@">> \o alias
    ELSE IF Truthy(stage) THEN name \o <<"@">> \o stage
    ELSE name \o <<":", "latest">>

\* autodspy/mlflow/loader.py, load_model_from_registry: the URI it builds
registry_model_uri(model_name, version, stage, alias) ==
    IF Truthy(version) THEN <<"models:", "/">> \o model_name \o <<"/">> \o version
    ELSE IF Truthy(alias) THEN <<"models:", "/">> \o model_name \o <<"@">> \o alias
    ELSE IF Truthy(stage) THEN <<"models:", "/">> \o model_name \o <<"/">> \o stage
    ELSE <<"models:", "/">> \o model_name \o <<"/", "latest">>

\* a registry lookup that raises is a lookup that finds nothing: both give None
_resolve_version(name, stage, alias) ==
    IF Truthy(alias) THEN RegistryAlias(name, alias)
    ELSE IF Truthy(stage) THEN RegistryStage(name, stage)
    ELSE None

_extract_version_from_uri(model_uri) ==
    IF Contains(model_uri, "/")
    THEN LET last_part == SplitLast(model_uri, "/")
         IN IF Contains(last_part, "@") THEN SplitLast(last_part, "@") ELSE last_part
    ELSE <<"unknown">>

\* (mutant) the lock is not taken at all
CanAcquire_NoLock(t) == TRUE

\* threading.RLock: free, or already held by the acquiring thread
CanAcquire(t) == lock = 0 \/ lock = t

\* the with block is left: the lock is released by the thread that holds it
Release(t) == IF lock = t THEN 0 ELSE lock

\* line 313: self._cache_enabled and cache_key in self._cache
in_cache(cache_key) == cache_enabled /\ cache_key \in DOMAIN cache

\* (mutant) the expired entry is left in the table
del_key_Keep(c, key) == c

\* lines 325 and 370: del self._cache[key]
del_key(c, key) == [ k \in DOMAIN c \ { key } |-> c[k] ]

\* (mutant) the insert ignores the cache_enabled switch
put_model_Always(c, cache_key, program, actual_version) ==
    [ k \in DOMAIN c \cup { cache_key } |->
        IF k = cache_key THEN CachedModel(program, actual_version, now) ELSE c[k] ]

\* lines 343-348: the insert, made only with caching enabled
put_model(c, cache_key, program, actual_version) ==
    IF cache_enabled
    THEN [ k \in DOMAIN c \cup { cache_key } |->
             IF k = cache_key THEN CachedModel(program, actual_version, now) ELSE c[k] ]
    ELSE c

\* (mutant) a hit is counted as a miss
count_hit_AsMiss(s) == [ s EXCEPT !.cache_misses = @ + 1 ]

\* lines 307, 319, 328: the counters of load_model
count_load(s) == [ s EXCEPT !.total_loads = @ + 1 ]
count_hit(s) == [ s EXCEPT !.cache_hits = @ + 1 ]
count_miss(s) == [ s EXCEPT !.cache_misses = @ + 1 ]

\* (mutant) only the "name:" prefix is matched
keys_to_remove_ColonOnly(name) ==
    { key \in DOMAIN cache : startswith(key, name \o <<":">>) }

\* lines 364-367
keys_to_remove(name) ==
    { key \in DOMAIN cache :
        startswith(key, name \o <<":">>) \/ startswith(key, name \o <<"@">>) }

get_cache_stats ==
    [ total_loads |-> stats.total_loads,
      cache_hits |-> stats.cache_hits,
      cache_misses |-> stats.cache_misses,
      cached_models |-> Cardinality(DOMAIN cache),
      invalidations |-> stats.invalidations,
      cache_enabled |-> cache_enabled,
      cache_ttl |-> cache_ttl ]

\* ---------------------------------------------------------------- observation
\* The logical address of a request: its addressing mode and address value,
\* by the documented precedence version > alias > stage > latest.
Address(name, version, stage, alias) ==
    CASE version # None -> [ name |-> name, mode |-> "version", value |-> version ]
      [] version = None /\ alias # None -> [ name |-> name, mode |-> "alias", value |-> alias ]
      [] version = None /\ alias = None /\ stage # None ->
             [ name |-> name, mode |-> "stage", value |-> stage ]
      [] OTHER -> [ name |-> name, mode |-> "latest", value |-> None ]

Fetching == { t \in Threads : pc[t] = "fetch" }


\* ---------------------------------------------------------------- components at rest
NoFbRet == [ op |-> "none", args |-> << >>, kind |-> "none", value |-> None ]
NoCall == [ pc |-> "idle" ]
NoQueryRet == [ kind |-> "none", search |-> "uncalled", traces |-> << >> ]
NoExported == [ kind |-> "none", bytes |-> << >> ]
NoGen == [ pc |-> "none", start_idx |-> 0, first_chunk |-> TRUE ]
NoExportArgs == [ format |-> "csv", use_corrected_output |-> TRUE, chunk_size |-> 1 ]

\* a FeedbackService just constructed (lines 78-79) and not called
FeedbackIdle ==
    /\ _feedback_enabled = TRUE
    /\ _feedback_history = << >>
    /\ uuids = 0
    /\ emitted = << >>
    /\ fb_ret = NoFbRet
    /\ fb_calls = [ t \in Threads |-> NoCall ]
    /\ trace_store = << >>
    /\ fb_done = { }

\* a DataExporter just constructed and not called
ExporterIdle ==
    /\ traces_df = << >>
    /\ export_args = NoExportArgs
    /\ gen = NoGen
    /\ yielded = << >>
    /\ exported = NoExported
    /\ query_ret = NoQueryRet

\* a ModelManager just constructed (lines 97-106) and not called
ManagerIdle ==
    /\ cache = << >>
    /\ cache_enabled = TRUE
    /\ cache_ttl = 0
    /\ stats = CacheStats
    /\ lock = 0
    /\ pc = [ t \in Threads |-> "idle" ]
    /\ args = [ t \in Threads |-> NoArgs ]
    /\ local = [ t \in Threads |-> NoLocal ]
    /\ ret = NoRet
    /\ ghost = [ store_calls |-> 0, key |-> None, same |-> TRUE, failed |-> FALSE,
                 expired |-> FALSE, invalidated |-> FALSE, origin |-> << >> ]
    /\ registry = RegistryContent

\* ---------------------------------------------------------------- Init
Init ==
    /\ cache = << >>
    /\ cache_enabled \in BOOLEAN
    /\ cache_ttl \in TTLs
    /\ stats = CacheStats
    /\ lock = 0
    /\ now = 0
    /\ pc = [ t \in Threads |-> "idle" ]
    /\ args = [ t \in Threads |-> NoArgs ]
    /\ local = [ t \in Threads |-> NoLocal ]
    /\ ret = NoRet
    /\ ghost = [ store_calls |-> 0, key |-> None, same |-> TRUE, failed |-> FALSE,
                 expired |-> FALSE, invalidated |-> FALSE, origin |-> << >> ]
    /\ registry = RegistryContent
    /\ mlflow_enabled = TRUE
    /\ FeedbackIdle
    /\ ExporterIdle

\* ---------------------------------------------------------------- calls
\* A request thread enters a method of the manager and blocks on
\* `with self._lock`.  Which method it is and its arguments are the thread's
\* own until the lock is taken, so they are drawn when the lock is taken.
Call(t) ==
    /\ pc[t] = "idle"
    /\ pc' = [ pc EXCEPT ![t] = "acquire" ]
    /\ UNCHANGED << cache, cache_enabled, cache_ttl, stats, lock, now, args, local, ret, ghost >>
    /\ UNCHANGED << registry, mlflow_enabled, feedback_vars, exporter_vars >>

\* ---------------------------------------------------------------- load_model
\* lines 306-331: take the lock, count the load, look the key up
load_model_check(t, name, version, stage, alias) ==
    /\ pc[t] = "acquire"
    /\ CanAcquire(t)
    /\ stats.total_loads < MaxLoads
    /\ LET cache_key == _get_cache_key(name, version, stage, alias)
           same == ghost.same /\ ghost.key \in { None, cache_key }
           seen == [ ghost EXCEPT !.key = IF same THEN cache_key ELSE None, !.same = same ]
       IN IF in_cache(cache_key) /\ ~is_expired(cache[cache_key], cache_ttl)
          THEN \* cache hit: return under the lock, which the with block releases
               /\ cache' = [ cache EXCEPT ![cache_key].hit_count = @ + 1 ]
               /\ stats' = count_hit(count_load(stats))
               /\ ret' = [ kind |-> "value", count |-> 0 ]
               /\ pc' = [ pc EXCEPT ![t] = "idle" ]
               /\ lock' = Release(t)
               /\ ghost' = seen
               /\ UNCHANGED << args, local >>
          ELSE \* miss, or expired and deleted: go and fetch, lock held
               /\ cache' = IF in_cache(cache_key) THEN del_key(cache, cache_key) ELSE cache
               /\ stats' = count_miss(count_load(stats))
               /\ local' = [ local EXCEPT ![t] =
                               [ cache_key |-> cache_key,
                                 model_uri |-> _build_model_uri(name, version, stage, alias) ] ]
               /\ args' = [ args EXCEPT ![t] = [ op |-> "load", name |-> name,
                                                 version |-> version, stage |-> stage,
                                                 alias |-> alias ] ]
               /\ ghost' = [ seen EXCEPT !.expired = @ \/ in_cache(cache_key),
                                         !.origin = [ k \in DOMAIN cache' |-> @[k] ] ]
               /\ pc' = [ pc EXCEPT ![t] = "fetch" ]
               /\ lock' = t
               /\ UNCHANGED ret
    /\ UNCHANGED << cache_enabled, cache_ttl, now >>
    /\ UNCHANGED << registry, mlflow_enabled, feedback_vars, exporter_vars >>

\* lines 334-351, _load_from_mlflow returns: the artifact store delivered the
\* program (the program is known by the URI it came from); resolve the
\* version, insert, return
load_model_fetched(t) ==
    /\ pc[t] = "fetch"
    /\ LET a == args[t]
           cache_key == local[t].cache_key
           program == local[t].model_uri
           resolved_version == _resolve_version(a.name, a.stage, a.alias)
           actual_version ==
               IF ~Truthy(a.version) /\ (Truthy(a.stage) \/ Truthy(a.alias))
                  /\ Truthy(resolved_version)
               THEN resolved_version
               ELSE _extract_version_from_uri(local[t].model_uri)
       IN /\ cache' = put_model(cache, cache_key, program, actual_version)
          /\ ghost' = [ ghost EXCEPT
                          !.store_calls = @ + 1,
                          !.origin = [ k \in DOMAIN cache' |->
                                         IF k = cache_key
                                         THEN Address(a.name, a.version, a.stage, a.alias)
                                         ELSE @[k] ] ]
    /\ ret' = [ kind |-> "value", count |-> 0 ]
    /\ pc' = [ pc EXCEPT ![t] = "idle" ]
    /\ args' = [ args EXCEPT ![t] = NoArgs ]
    /\ local' = [ local EXCEPT ![t] = NoLocal ]
    /\ lock' = Release(t)
    /\ UNCHANGED << cache_enabled, cache_ttl, stats, now >>
    /\ UNCHANGED << registry, mlflow_enabled, feedback_vars, exporter_vars >>

\* line 334, _load_from_mlflow raises ValueError: it leaves load_model through
\* the with block
load_model_failed(t) ==
    /\ pc[t] = "fetch"
    /\ ret' = [ kind |-> "error", count |-> 0 ]
    /\ ghost' = [ ghost EXCEPT !.store_calls = @ + 1, !.failed = TRUE ]
    /\ pc' = [ pc EXCEPT ![t] = "idle" ]
    /\ args' = [ args EXCEPT ![t] = NoArgs ]
    /\ local' = [ local EXCEPT ![t] = NoLocal ]
    /\ lock' = Release(t)
    /\ UNCHANGED << cache, cache_enabled, cache_ttl, stats, now >>
    /\ UNCHANGED << registry, mlflow_enabled, feedback_vars, exporter_vars >>

\* ---------------------------------------------------------------- invalidation
\* lines 363-376, whole handler under the lock
invalidate_cache(t, name) ==
    /\ pc[t] = "acquire"
    /\ CanAcquire(t)
    /\ LET removed == keys_to_remove(name)
       IN /\ cache' = [ k \in DOMAIN cache \ removed |-> cache[k] ]
          /\ stats' = [ stats EXCEPT !.invalidations = @ + Cardinality(removed) ]
          /\ ret' = [ kind |-> "count", count |-> Cardinality(removed) ]
    /\ ghost' = [ ghost EXCEPT !.invalidated = @ \/ DOMAIN cache' # DOMAIN cache,
                               !.origin = [ k \in DOMAIN cache' |-> @[k] ] ]
    /\ pc' = [ pc EXCEPT ![t] = "idle" ]
    /\ lock' = Release(t)
    /\ UNCHANGED << cache_enabled, cache_ttl, now, args, local >>
    /\ UNCHANGED << registry, mlflow_enabled, feedback_vars, exporter_vars >>

\* (mutant) the entries are counted after the table is cleared
invalidate_all_CountAfterClear(t) ==
    /\ pc[t] = "acquire"
    /\ CanAcquire(t)
    /\ cache' = << >>
    /\ stats' = stats
    /\ ret' = [ kind |-> "count", count |-> 0 ]
    /\ ghost' = [ ghost EXCEPT !.invalidated = @ \/ DOMAIN cache' # DOMAIN cache,
                               !.origin = << >> ]
    /\ pc' = [ pc EXCEPT ![t] = "idle" ]
    /\ lock' = Release(t)
    /\ UNCHANGED << cache_enabled, cache_ttl, now, args, local >>
    /\ UNCHANGED << registry, mlflow_enabled, feedback_vars, exporter_vars >>

\* lines 385-390, whole handler under the lock
invalidate_all(t) ==
    /\ pc[t] = "acquire"
    /\ CanAcquire(t)
    /\ LET count == Cardinality(DOMAIN cache)
       IN /\ cache' = << >>
          /\ stats' = [ stats EXCEPT !.invalidations = @ + count ]
          /\ ret' = [ kind |-> "count", count |-> count ]
    /\ ghost' = [ ghost EXCEPT !.invalidated = @ \/ DOMAIN cache' # DOMAIN cache,
                               !.origin = << >> ]
    /\ pc' = [ pc EXCEPT ![t] = "idle" ]
    /\ lock' = Release(t)
    /\ UNCHANGED << cache_enabled, cache_ttl, now, args, local >>
    /\ UNCHANGED << registry, mlflow_enabled, feedback_vars, exporter_vars >>

\* ---------------------------------------------------------------- the clock
Tick ==
    /\ now < MaxTime
    /\ now' = now + 1
    /\ UNCHANGED << manager_vars, mlflow_enabled, feedback_vars, exporter_vars >>

\* ---------------------------------------------------------------- specification
Next ==
    \/ \E t \in Threads : Call(t)
    \/ \E t \in Threads, name \in Names, version \in Versions, stage \in Stages, alias \in Aliases :
           load_model_check(t, name, version, stage, alias)
    \/ \E t \in Threads : load_model_fetched(t)
    \/ \E t \in Threads : load_model_failed(t)
    \/ \E t \in Threads, name \in Names : invalidate_cache(t, name)
    \/ \E t \in Threads : invalidate_all(t)
    \/ Tick

Spec == Init /\ [][Next]_vars

\* ---------------------------------------------------------------- claims
\* no fetch failed, no entry expired, no entry was invalidated, and every
\* load so far asked for one and the same key
Undisturbed ==
    /\ ghost.key # None
    /\ ghost.same
    /\ ~ghost.failed
    /\ ~ghost.expired
    /\ ~ghost.invalidated

\* C1: with caching enabled, concurrent load_model calls never overlap in the
\* check-fetch-insert section (at most one thread is between its miss and its
\* return, and it holds the lock), and as long as nothing disturbs the cache
\* all the loads of one key cause exactly one artifact-store fetch, counting
\* the one in progress.
C1_OneFetchPerKey ==
    /\ Cardinality(Fetching) <= 1
    /\ \A t \in Fetching : lock = t
    /\ (cache_enabled /\ Undisturbed) => ghost.store_calls + Cardinality(Fetching) = 1

\* C1 witness: one caller is fetching a key while another caller is blocked on
\* the lock, after an earlier call already went through
C1_Witness ==
    /\ cache_enabled
    /\ \E t1, t2 \in Threads : t1 # t2 /\ pc[t1] = "fetch" /\ pc[t2] = "acquire"
    /\ ghost.key # None /\ ghost.same

\* C2: after N undisturbed loads of one key on a fresh cache with caching
\* enabled, get_cache_stats reports cache_hits = N-1, cache_misses = 1 and
\* total_loads = N, and the artifact store was called exactly once.
C2_HitMissAccounting ==
    (cache_enabled /\ Undisturbed /\ Fetching = {}) =>
        /\ get_cache_stats.cache_misses = 1
        /\ get_cache_stats.cache_hits = get_cache_stats.total_loads - 1
        /\ get_cache_stats.cached_models = 1
        /\ ghost.store_calls = 1

\* C2 witness: several undisturbed loads of one key have returned, the later
\* ones as hits
C2_Witness ==
    /\ cache_enabled /\ Undisturbed /\ Fetching = {}
    /\ stats.total_loads >= 2
    /\ stats.cache_hits = stats.total_loads - 1

\* a thread takes the lock for load_model and leaves the lookup as a hit /
\* as a miss on key k
HitStep(t, k) ==
    /\ pc[t] = "acquire" /\ pc'[t] = "idle" /\ ret'.kind = "value"
    /\ k \in DOMAIN cache /\ k \in DOMAIN cache'
    /\ cache'[k].hit_count = cache[k].hit_count + 1
MissStep(t, k) ==
    /\ pc[t] = "acquire" /\ pc'[t] = "fetch"
    /\ local'[t].cache_key = k
\* the thread that missed returns with the fetched program
ReloadStep(t, k) ==
    /\ pc[t] = "fetch" /\ pc'[t] = "idle" /\ ret'.kind = "value"
    /\ local[t].cache_key = k

Fresh(k) == cache_ttl <= 0 \/ now - cache[k].loaded_at <= cache_ttl

\* C3: a load of a cached key is a hit exactly while now - loaded_at <= ttl
\* or ttl <= 0 (no fetch, the entry keeps its loaded_at); past that it is a
\* miss that evicts the entry, and the reload that follows inserts it with
\* loaded_at = now and no hits.
C3_TtlBoundary ==
    [][\A t \in Threads :
         /\ \A k \in DOMAIN cache :
              /\ HitStep(t, k) => /\ Fresh(k)
                                  /\ cache'[k].loaded_at = cache[k].loaded_at
                                  /\ ghost'.store_calls = ghost.store_calls
              /\ (cache_enabled /\ MissStep(t, k)) => ~Fresh(k) /\ k \notin DOMAIN cache'
         /\ \A k \in DOMAIN cache' :
              (cache_enabled /\ ReloadStep(t, k)) =>
                  cache'[k].loaded_at = now /\ cache'[k].hit_count = 0
         /\ (cache_enabled /\ pc[t] = "fetch" /\ pc'[t] = "idle" /\ ret'.kind = "value") =>
                local[t].cache_key \in DOMAIN cache'
    ]_vars

\* C3 witness: the one key ever loaded expired and was reloaded at the
\* current time, later than its ttl
C3_Witness ==
    /\ cache_enabled /\ cache_ttl > 0
    /\ ghost.same /\ ghost.expired /\ ~ghost.failed /\ ~ghost.invalidated
    /\ ghost.key \in DOMAIN cache
    /\ cache[ghost.key].loaded_at = now
    /\ now > cache_ttl
    /\ stats.cache_misses = 2

\* the cache keys the addresses of model `name` are stored under
KeysOf(name) ==
    { _get_cache_key(name, v, s, a) : v \in Versions, s \in Stages, a \in Aliases }

\* C4: invalidate_cache(A) removes exactly the entries whose model name is A,
\* leaves every entry of every other model as it was, and leaves the load,
\* hit and miss counters unchanged.
C4_InvalidateOnlyThatModel ==
    [][\A t \in Threads, A \in Names :
         invalidate_cache(t, A) =>
             /\ DOMAIN cache' = { k \in DOMAIN cache : ghost.origin[k].name # A }
             /\ \A k \in DOMAIN cache' : cache'[k] = cache[k]
             /\ stats'.total_loads = stats.total_loads
             /\ stats'.cache_hits = stats.cache_hits
             /\ stats'.cache_misses = stats.cache_misses
    ]_vars

\* C5: the cache key is a function of (model name, addressing mode, address
\* value): a request only ever finds (hits or evicts) an entry that was
\* loaded for the same model with the same addressing mode, and a request
\* that misses leaves no entry of its own logical address under another key.
C5_KeySeparatesModes ==
    [][\A t \in Threads, name \in Names, version \in Versions, stage \in Stages,
          alias \in Aliases :
         load_model_check(t, name, version, stage, alias) =>
             LET k == IF pc'[t] = "fetch"
                      THEN local'[t].cache_key
                      ELSE CHOOSE h \in DOMAIN cache : cache'[h] # cache[h]
                 A == Address(name, version, stage, alias)
             IN /\ k \in DOMAIN cache =>
                       /\ ghost.origin[k].name = A.name
                       /\ ghost.origin[k].mode = A.mode
                /\ \A h \in DOMAIN cache : ghost.origin[h] = A => h = k
    ]_vars

\* C6: when the artifact store fails the call raises and nothing is
\* inserted: the cache holds no entry for the key of the failed call and
\* every other entry is as it was.
C6_FailedLoadCachesNothing ==
    [][\A t \in Threads :
         load_model_failed(t) =>
             /\ ret'.kind = "error"
             /\ local[t].cache_key \notin DOMAIN cache'
             /\ DOMAIN cache' \subseteq DOMAIN cache
             /\ \A k \in DOMAIN cache \ { local[t].cache_key } :
                    k \in DOMAIN cache' /\ cache'[k] = cache[k]
    ]_vars

\* C6 witness: a load of the one key ever requested found it expired, and
\* its fetch failed, so the key is gone
C6_Witness ==
    /\ cache_enabled
    /\ ret.kind = "error"
    /\ ghost.failed /\ ghost.expired /\ ghost.same
    /\ ghost.key \notin DOMAIN cache
    /\ Fetching = {}

\* C7: with caching disabled the cache table is empty in every state, no
\* load is ever a hit, every load is counted as a miss and every load goes to
\* the artifact store.
C7_DisabledNeverCaches ==
    ~cache_enabled =>
        /\ cache = << >>
        /\ get_cache_stats.cached_models = 0
        /\ get_cache_stats.cache_hits = 0
        /\ get_cache_stats.cache_misses = get_cache_stats.total_loads
        /\ ghost.store_calls + Cardinality(Fetching) = get_cache_stats.total_loads

\* C7 witness: with caching disabled the same key was loaded twice and
\* fetched twice
C7_Witness ==
    /\ ~cache_enabled
    /\ ghost.same /\ ~ghost.failed
    /\ stats.total_loads = 2
    /\ ghost.store_calls = 2

\* a thread takes the lock for load_model and its load is counted
LoadStep(t) ==
    /\ pc[t] = "acquire" /\ pc'[t] # "acquire"
    /\ stats'.total_loads = stats.total_loads + 1

\* C8: invalidate_cache(name) leaves no entry under the key of any address
\* of the model and invalidate_all leaves no entry at all; a load is a hit
\* only on an entry that is in the table, and otherwise a miss that is
\* counted and goes to the artifact store before it returns; so, while one
\* key is loaded over and over with no expiry and no failed fetch, every
\* removal by invalidation is followed by a miss that fetches again: the
\* misses are the removals plus the load that filled (or is filling) the
\* entry.
C8_InvalidatedThenMiss ==
    /\ [][\A t \in Threads :
             /\ \A A \in Names :
                    invalidate_cache(t, A) => KeysOf(A) \cap DOMAIN cache' = {}
             /\ invalidate_all(t) => DOMAIN cache' = {}
             /\ LoadStep(t) =>
                    \/ \E k \in DOMAIN cache : HitStep(t, k)
                    \/ /\ pc'[t] = "fetch"
                       /\ stats'.cache_misses = stats.cache_misses + 1
                       /\ stats'.cache_hits = stats.cache_hits
             /\ (pc[t] = "fetch" /\ pc'[t] # "fetch") =>
                    ghost'.store_calls = ghost.store_calls + 1
       ]_vars
    /\ []((cache_enabled /\ ghost.key # None /\ ghost.same /\ ~ghost.failed /\ ~ghost.expired) =>
             /\ stats.cache_misses = stats.invalidations
                    + (IF ghost.key \in DOMAIN cache \/ Fetching # {} THEN 1 ELSE 0)
             /\ ghost.store_calls + Cardinality(Fetching) = stats.cache_misses)

\* C8 witness: the one key ever loaded was invalidated while still within its
\* ttl and loaded again, as a second miss
C8_Witness ==
    /\ cache_enabled
    /\ ghost.same /\ ~ghost.failed /\ ~ghost.expired /\ ghost.invalidated
    /\ ghost.key \in DOMAIN cache
    /\ ret.kind = "value"
    /\ stats.cache_misses = 2
    /\ ghost.store_calls = 2

\* a thread takes the lock for an invalidation and returns a count
InvalidationStep(t) ==
    pc[t] = "acquire" /\ pc'[t] = "idle" /\ ret'.kind = "count"

\* C9: an invalidation returns the number of entries it removed, the number
\* of cached models drops by that number and the invalidations counter grows
\* by that number; no other step, an eviction by expiry included, changes the
\* invalidations counter.
C9_InvalidationCount ==
    [][/\ \A t \in Threads :
             InvalidationStep(t) =>
                 /\ DOMAIN cache' \subseteq DOMAIN cache
                 /\ ret'.count = Cardinality(DOMAIN cache \ DOMAIN cache')
                 /\ Cardinality(DOMAIN cache') = Cardinality(DOMAIN cache) - ret'.count
                 /\ stats'.invalidations = stats.invalidations + ret'.count
       /\ (\A t \in Threads : ~InvalidationStep(t)) =>
             stats'.invalidations = stats.invalidations
    ]_vars

\* C9 witness: an invalidation has just removed two entries at once
C9_Witness ==
    /\ ret.kind = "count"
    /\ ret.count = 2
    /\ stats.invalidations = 2
    /\ cache = << >>

\* what the documented precedence asks of a logical address: its key, its
\* artifact URI (of the manager and of the registry loader), its version
AddressKey(A) ==
    CASE A.mode = "version" -> A.name \o <<":", "v">> \o A.value
      [] A.mode = "latest" -> A.name \o <<":", "latest">>
      [] OTHER -> A.name \o <<"@">> \o A.value
AddressUri(A) ==
    CASE A.mode = "version" -> <<"models:", "/">> \o A.name \o <<"/">> \o A.value
      [] A.mode = "latest" -> <<"models:", "/">> \o A.name \o <<"/", "latest">>
      [] OTHER -> <<"models:", "/">> \o A.name \o <<"@">> \o A.value
AddressLoaderUri(A) ==
    CASE A.mode = "alias" -> <<"models:", "/">> \o A.name \o <<"@">> \o A.value
      [] A.mode = "latest" -> <<"models:", "/">> \o A.name \o <<"/", "latest">>
      [] OTHER -> <<"models:", "/">> \o A.name \o <<"/">> \o A.value
AddressVersion(A) ==
    CASE A.mode = "version" -> A.value
      [] A.mode = "latest" -> <<"latest">>
      [] A.mode = "alias" ->
             IF RegistryAlias(A.name, A.value) # None
             THEN RegistryAlias(A.name, A.value) ELSE A.value
      [] OTHER ->
             IF RegistryStage(A.name, A.value) # None
             THEN RegistryStage(A.name, A.value) ELSE A.value

\* C10: whatever hints are supplied, the key, the artifact URI and the
\* resolved version are those of the single highest-precedence hint (version
\* over alias over stage over latest): a fetch in progress uses the key and
\* the URI of the request's logical address, and every entry is cached under
\* the key of the address it was fetched from, with that address's URI and
\* version.
C10_PrecedenceEverywhere ==
    /\ \A t \in Fetching :
          LET a == args[t]
              A == Address(a.name, a.version, a.stage, a.alias)
          IN /\ local[t].cache_key = AddressKey(A)
             /\ local[t].model_uri = AddressUri(A)
             /\ registry_model_uri(a.name, a.version, a.stage, a.alias) = AddressLoaderUri(A)
    /\ \A k \in DOMAIN cache :
          /\ k = AddressKey(ghost.origin[k])
          /\ cache[k].program = AddressUri(ghost.origin[k])
          /\ cache[k].version = AddressVersion(ghost.origin[k])

\* C10 witness: a request with all three hints is being fetched while an
\* entry fetched by alias "c" is cached with the version the alias resolves to
C10_Witness ==
    /\ \E t \in Fetching :
          args[t].version # None /\ args[t].alias # None /\ args[t].stage # None
    /\ \E k \in DOMAIN cache :
          ghost.origin[k].mode = "alias" /\ ghost.origin[k].value = <<"c">>
    /\ \E k \in DOMAIN cache : cache[k].version = <<"7">>

\* ================================================================ texts
\* the characters the texts of the model are made of, in code point order
Alphabet ==
    << "\n", "\r", " ", "\"", ",", "0", "1", "2", "3", ":", "[", "\\", "]", "_",
       "a", "b", "c", "d", "e", "f", "g", "h", "i", "j", "k", "l", "m", "n", "o", "p",
       "q", "r", "s", "t", "u", "v", "w", "x", "y", "z", "{", "}" >>

\* Op(v) with v evaluated once: TLC evaluates the argument of an operator anew at
\* each use, and a bound variable once
Bind(v, Op(_)) == CHOOSE r \in { Op(x) : x \in { v } } : TRUE

Ord(ch) == CHOOSE i \in 1..Len(Alphabet) : Alphabet[i] = ch

\* s < t as Python compares str: by code point, a proper prefix first
StrLess(s, t) ==
    \E i \in 1..(Len(s) + 1) :
        /\ i <= Len(t)
        /\ \A j \in 1..(i - 1) : s[j] = t[j]
        /\ (i = Len(s) + 1 \/ Ord(s[i]) < Ord(t[i]))

\* the concatenation of the texts of a list
RECURSIVE Concat(_)
Concat(parts) ==
    Bind(parts, LAMBDA p : IF p = << >> THEN << >> ELSE Head(p) \o Concat(Tail(p)))

\* sep.join(parts)
RECURSIVE Join(_, _)
Join(parts, sep) ==
    Bind(parts, LAMBDA p :
        IF p = << >> THEN << >>
        ELSE IF Len(p) = 1 THEN p[1]
        ELSE p[1] \o sep \o Join(Tail(p), sep))

\* ---------------------------------------------------------------- dict and json
\* A dict is the sequence of its items (key, value) in insertion order, keys
\* unique; the dicts of the model map strings to strings.
Keys(d) == Bind(d, LAMBDA x : { x[i].k : i \in DOMAIN x })
Get(d, key) == Bind(<< d, key >>, LAMBDA x : x[1][CHOOSE i \in DOMAIN x[1] : x[1][i].k = x[2]].v)

\* d[key] = value: an existing key keeps its place
SetItem(d, key, value) ==
    Bind([ d |-> d, item |-> [ k |-> key, v |-> value ] ], LAMBDA x :
        IF \E i \in DOMAIN x.d : x.d[i].k = x.item.k
        THEN [ i \in DOMAIN x.d |-> IF x.d[i].k = x.item.k THEN x.item ELSE x.d[i] ]
        ELSE Append(x.d, x.item))

\* {**a, **b}
RECURSIVE Merge(_, _)
Merge(a, b) ==
    Bind([ a |-> a, b |-> b ], LAMBDA x :
        IF x.b = << >> THEN x.a
        ELSE Merge(SetItem(x.a, Head(x.b).k, Head(x.b).v), Tail(x.b)))

\* a string as a JSON string literal: a quote and a backslash are escaped (the
\* texts of the model hold no control character inside a value)
JsonString(s) ==
    Bind(s, LAMBDA x :
        <<"\"">>
        \o Concat([ i \in DOMAIN x |->
                      IF x[i] \in { "\"", "\\" } THEN << "\\", x[i] >> ELSE << x[i] >> ])
        \o <<"\"">>)

JsonItem(item, colon) == JsonString(item.k) \o colon \o JsonString(item.v)

\* json.dumps(d, ensure_ascii=False) of a dict
json_dumps(d) ==
    Bind(d, LAMBDA x :
        IF x = << >> THEN <<"{", "}">>
        ELSE <<"{">> \o Join([ i \in DOMAIN x |-> JsonItem(x[i], <<":", " ">>) ], <<",", " ">>)
                 \o <<"}">>)

\* ================================================================ FeedbackService
\* ---------------------------------------------------------------- inputs
TraceIds == { <<"tr-1">>, <<"tr-2">> }
Ratings == { <<"thumbs_up">>, <<"thumbs_down">>, <<"Positive">> }
\* corrected_output, comment and user_id of a submission
Payloads ==
    { [ corrected_output |-> None, comment |-> None, user_id |-> None ],
      [ corrected_output |-> << [ k |-> <<"a">>, v |-> <<"3">> ] >>,
        comment |-> <<"nice">>, user_id |-> <<"u">> ] }
Limits == { 0, 1, 100 }
\* what a query of the trace store does: it raises, or it answers with or
\* without a trace
Answers == { "raise", "found", "empty" }
\* client.get_trace is only called after client.search_traces found nothing
GetAnswers(search) == IF search = "empty" THEN Answers ELSE { "uncalled" }
\* which of the log_feedback calls of a submission raises, 0 for none: there
\* is one call for the rating, one for a corrected output, one for a comment,
\* and none at all while the trace store is not available
RaisePoints(p) ==
    IF mlflow_enabled /\ _feedback_enabled
    THEN 0..(1 + (IF p.corrected_output # None THEN 1 ELSE 0)
               + (IF p.comment # None THEN 1 ELSE 0))
    ELSE { 0 }

\* ---------------------------------------------------------------- FeedbackRecord
HexDigits == << "0", "1", "2", "3", "4", "5", "6", "7", "8", "9", "a", "b", "c", "d", "e", "f" >>

\* (variant) the id is taken from the clock reading instead of a random number
uuid4_hex16_FromClock(n) == [ i \in 1..16 |-> IF i = 16 THEN HexDigits[(now % 16) + 1] ELSE "0" ]

\* uuid.uuid4().hex[:16]: the n-th value drawn differs from all earlier ones
uuid4_hex16(n) == [ i \in 1..16 |-> IF i = 16 THEN HexDigits[(n % 16) + 1] ELSE "0" ]

\* lines 37-52; the timestamp is the reading of the clock at construction,
\* which isoformat() keeps in the order of the clock
FeedbackRecord(trace_id, rating, corrected_output, comment, user_id, reading) ==
    [ trace_id |-> trace_id,
      rating |-> rating,
      corrected_output |-> corrected_output,
      comment |-> comment,
      user_id |-> user_id,
      timestamp |-> reading,
      feedback_id |-> <<"f", "b", "-">> \o uuid4_hex16(uuids) ]

\* line 85
_is_available == mlflow_enabled /\ _feedback_enabled

\* (mutant) the spec's rating names are accepted as well
valid_ratings_WithPositive == { <<"thumbs_up">>, <<"thumbs_down">>, <<"Positive">> }

\* line 161
valid_ratings == { <<"thumbs_up">>, <<"thumbs_down">> }

\* (variant) the comment is logged before the corrected output
log_feedback_calls_CommentFirst(record) ==
    LET source_id == IF Truthy(record.user_id) THEN record.user_id ELSE <<"anonymous">>
        signal(name, value) ==
            [ trace_id |-> record.trace_id, name |-> name, value |-> value,
              source_id |-> source_id, feedback_id |-> record.feedback_id ]
    IN << signal("user_rating",
                 IF record.rating = <<"thumbs_up">> THEN <<"True">> ELSE <<"False">>) >>
       \o (IF Truthy(record.comment)
           THEN << signal("user_comment", record.comment) >>
           ELSE << >>)
       \o (IF Truthy(record.corrected_output)
           THEN << signal("corrected_output", json_dumps(record.corrected_output)) >>
           ELSE << >>)

\* lines 183-232: the mlflow.log_feedback calls of a record, in order
log_feedback_calls(record) ==
    LET source_id == IF Truthy(record.user_id) THEN record.user_id ELSE <<"anonymous">>
        signal(name, value) ==
            [ trace_id |-> record.trace_id, name |-> name, value |-> value,
              source_id |-> source_id, feedback_id |-> record.feedback_id ]
    IN << signal("user_rating",
                 IF record.rating = <<"thumbs_up">> THEN <<"True">> ELSE <<"False">>) >>
       \o (IF Truthy(record.corrected_output)
           THEN << signal("corrected_output", json_dumps(record.corrected_output)) >>
           ELSE << >>)
       \o (IF Truthy(record.comment)
           THEN << signal("user_comment", record.comment) >>
           ELSE << >>)

\* the calls that returned before call number `raises` raised (0: none raises)
logged(record, raises) ==
    LET calls == log_feedback_calls(record)
    IN IF raises \in 1..Len(calls) THEN SubSeq(calls, 1, raises - 1) ELSE calls

\* (mutant) a failed emission is raised to the caller
record_feedback_return_Propagate(record, raises) ==
    IF _is_available /\ raises \in 1..Len(log_feedback_calls(record))
    THEN [ kind |-> "error", value |-> <<"Exception">> ]
    ELSE [ kind |-> "value", value |-> record.feedback_id ]

\* lines 179, 234, 239: every way out of the method after the append
record_feedback_return(record, raises) ==
    [ kind |-> "value", value |-> record.feedback_id ]

\* lines 160-239.  The clock is read when the record is built: it shows
\* what it showed for the record before, or a later time (elapsed > 0).
record_feedback(trace_id, rating, p, elapsed, raises) ==
    LET given == [ trace_id |-> trace_id, rating |-> rating,
                   corrected_output |-> p.corrected_output, comment |-> p.comment,
                   user_id |-> p.user_id ]
    IN
    /\ IF rating \notin valid_ratings
       THEN /\ fb_ret' = [ op |-> "record_feedback", args |-> given,
                           kind |-> "error", value |-> <<"ValueError">> ]
            /\ emitted' = << >>
            /\ UNCHANGED << _feedback_history, uuids, now >>
       ELSE /\ Len(_feedback_history) < MaxFeedback
            /\ now' = now + elapsed
            /\ LET record == FeedbackRecord(trace_id, rating, p.corrected_output, p.comment,
                                            p.user_id, now')
                   returned == record_feedback_return(record, raises)
               IN /\ _feedback_history' = Append(_feedback_history, record)
                  /\ uuids' = uuids + 1
                  /\ emitted' = IF _is_available THEN logged(record, raises) ELSE << >>
                  /\ fb_ret' = [ op |-> "record_feedback", args |-> given,
                                 kind |-> returned.kind, value |-> returned.value ]
    /\ UNCHANGED << manager_vars, mlflow_enabled, _feedback_enabled, exporter_vars >>
    /\ UNCHANGED << fb_calls, trace_store, fb_done >>

\* lines 97-131: what the method returns, given what client.search_traces and
\* client.get_trace do
trace_exists(search, get) ==
    IF ~_is_available THEN FALSE
    ELSE IF search = "raise" THEN TRUE
    ELSE IF search = "found" THEN TRUE
    ELSE IF get = "found" THEN TRUE
    ELSE FALSE

validate_trace_exists(trace_id, search, get) ==
    /\ fb_ret' = [ op |-> "validate_trace_exists",
                   args |-> [ trace_id |-> trace_id, search_traces |-> search,
                              get_trace |-> get ],
                   kind |-> "value", value |-> trace_exists(search, get) ]
    /\ emitted' = << >>
    /\ UNCHANGED << manager_vars, now, mlflow_enabled, _feedback_enabled, _feedback_history,
                    uuids, exporter_vars >>
    /\ UNCHANGED << fb_calls, trace_store, fb_done >>

\* sorted(records, key=lambda r: r.timestamp, reverse=True): the sort is
\* stable, records with equal timestamps keep the order they had
RECURSIVE sorted_reverse(_)
sorted_reverse(records) ==
    IF records = << >> THEN << >>
    ELSE LET r == records[Len(records)]
             rest == sorted_reverse(SubSeq(records, 1, Len(records) - 1))
             \* r goes after every record that is not older than it
             n == Cardinality({ i \in DOMAIN rest : rest[i].timestamp >= r.timestamp })
         IN SubSeq(rest, 1, n) \o << r >> \o SubSeq(rest, n + 1, Len(rest))

\* [r for r in records if r.trace_id == trace_id]
RECURSIVE of_trace(_, _)
of_trace(records, trace_id) ==
    IF records = << >> THEN << >>
    ELSE (IF Head(records).trace_id = trace_id THEN << Head(records) >> ELSE << >>)
         \o of_trace(Tail(records), trace_id)

\* records[:limit], limit >= 0
take(records, limit) == SubSeq(records, 1, IF limit < Len(records) THEN limit ELSE Len(records))

\* lines 256-264
feedback_history(trace_id, limit) ==
    LET records == IF Truthy(trace_id)
                   THEN of_trace(_feedback_history, trace_id)
                   ELSE _feedback_history
    IN take(sorted_reverse(records), limit)

\* a variant that sorts with records.sort(): without a trace_id, records is the
\* history list itself (line 256), which is then sorted in place
history_after_sorted_InPlace(trace_id) ==
    IF Truthy(trace_id) THEN _feedback_history ELSE sorted_reverse(_feedback_history)

\* line 262: sorted() builds a new list, the list it is given stays as it is
history_after_sorted(trace_id) == _feedback_history

get_feedback_history(trace_id, limit) ==
    /\ fb_ret' = [ op |-> "get_feedback_history",
                   args |-> [ trace_id |-> trace_id, limit |-> limit ],
                   kind |-> "value", value |-> feedback_history(trace_id, limit) ]
    /\ emitted' = << >>
    /\ _feedback_history' = history_after_sorted(trace_id)
    /\ UNCHANGED << manager_vars, now, mlflow_enabled, _feedback_enabled, uuids, exporter_vars >>
    /\ UNCHANGED << fb_calls, trace_store, fb_done >>

\* lines 278-282: sum(1 for r in self._feedback_history if ...)
HistoryIndexes == DOMAIN _feedback_history

\* lines 277-291: the dict of counts; the rate is the fraction thumbs_up / total,
\* 0.0 (0 / 1) for an empty history
feedback_stats ==
    LET total == Len(_feedback_history)
        thumbs_up ==
            Cardinality({ i \in HistoryIndexes : _feedback_history[i].rating = <<"thumbs_up">> })
    IN [ total_feedbacks |-> total,
         thumbs_up_count |-> thumbs_up,
         thumbs_down_count |->
            Cardinality({ i \in HistoryIndexes : _feedback_history[i].rating = <<"thumbs_down">> }),
         thumbs_up_rate |-> IF total > 0 THEN << thumbs_up, total >> ELSE << 0, 1 >>,
         with_corrections |->
            Cardinality({ i \in HistoryIndexes : Truthy(_feedback_history[i].corrected_output) }),
         with_comments |->
            Cardinality({ i \in HistoryIndexes : Truthy(_feedback_history[i].comment) }),
         feedback_enabled |-> _feedback_enabled ]

get_feedback_stats ==
    /\ fb_ret' = [ op |-> "get_feedback_stats", args |-> << >>,
                   kind |-> "value", value |-> feedback_stats ]
    /\ emitted' = << >>
    /\ UNCHANGED << manager_vars, now, mlflow_enabled, _feedback_enabled, _feedback_history,
                    uuids, exporter_vars >>
    /\ UNCHANGED << fb_calls, trace_store, fb_done >>

\* ---------------------------------------------------------------- POST /feedback
\* dspyui/api/routes/feedback.py
RouteTraceIds == { <<"tr-1">>, <<"degraded-", "1">> }

\* a variant that only logs a trace that does not exist
trace_missing_Ignored(trace_id, exists) == FALSE

\* lines 50-57: the request is refused with 404
trace_missing(trace_id, exists) ==
    ~startswith(trace_id, <<"degraded-">>) /\ ~exists

\* lines 47-89, the whole handler: validate_trace_exists unless the id is a
\* degraded one, then record_feedback (lines 160-239 of the service); search and
\* get are what the trace store does with the queries, elapsed and raises as in
\* record_feedback
submit_feedback(trace_id, rating, p, search, get, elapsed, raises) ==
    LET validated == ~startswith(trace_id, <<"degraded-">>)
        exists == IF validated THEN trace_exists(search, get) ELSE FALSE
        given == [ trace_id |-> trace_id, rating |-> rating,
                   corrected_output |-> p.corrected_output, comment |-> p.comment,
                   user_id |-> p.user_id, validated |-> validated, trace_exists |-> exists ]
        response(status, recorded, feedback_id) ==
            [ op |-> "submit_feedback", args |-> given, kind |-> "http",
              value |-> [ status |-> status, recorded |-> recorded,
                          feedback_id |-> feedback_id ] ]
    IN
    /\ validated \/ (search = "uncalled" /\ get = "uncalled")
    /\ IF trace_missing(trace_id, exists)
       THEN /\ fb_ret' = response(404, FALSE, None)
            /\ emitted' = << >>
            /\ UNCHANGED << _feedback_history, uuids, now >>
       ELSE IF rating \notin valid_ratings
       THEN /\ fb_ret' = response(400, TRUE, None)
            /\ emitted' = << >>
            /\ UNCHANGED << _feedback_history, uuids, now >>
       ELSE /\ Len(_feedback_history) < MaxFeedback
            /\ now' = now + elapsed
            /\ LET record == FeedbackRecord(trace_id, rating, p.corrected_output, p.comment,
                                            p.user_id, now')
                   returned == record_feedback_return(record, raises)
               IN /\ _feedback_history' = Append(_feedback_history, record)
                  /\ uuids' = uuids + 1
                  /\ emitted' = IF _is_available THEN logged(record, raises) ELSE << >>
                  /\ fb_ret' = IF returned.kind = "value"
                               THEN response(200, TRUE, returned.value)
                               ELSE response(500, TRUE, None)
    /\ UNCHANGED << manager_vars, mlflow_enabled, _feedback_enabled, exporter_vars >>
    /\ UNCHANGED << fb_calls, trace_store, fb_done >>

\* ---------------------------------------------------------------- specification
FeedbackInit ==
    /\ ManagerIdle
    /\ ExporterIdle
    /\ now = 0
    /\ mlflow_enabled \in BOOLEAN
    /\ _feedback_enabled = TRUE
    /\ _feedback_history = << >>
    /\ uuids = 0
    /\ emitted = << >>
    /\ fb_ret = NoFbRet
    /\ fb_calls = [ t \in Threads |-> NoCall ]
    /\ trace_store = << >>
    /\ fb_done = { }

FeedbackNext ==
    \/ \E trace_id \in TraceIds, rating \in Ratings, p \in Payloads, elapsed \in 0..1 :
           \E raises \in RaisePoints(p) : record_feedback(trace_id, rating, p, elapsed, raises)
    \/ \E trace_id \in TraceIds, search \in Answers :
           \E get \in GetAnswers(search) : validate_trace_exists(trace_id, search, get)
    \/ \E trace_id \in TraceIds \cup { None }, limit \in Limits :
           get_feedback_history(trace_id, limit)
    \/ get_feedback_stats

FeedbackSpec == FeedbackInit /\ [][FeedbackNext]_vars

\* the requests the POST /feedback endpoint is sent, one after another: FastAPI
\* runs the async handler, which never awaits, to its end on the event loop
RouteRatings == { <<"thumbs_up">>, <<"Positive">> }

RouteNext ==
    \E trace_id \in RouteTraceIds, rating \in RouteRatings, p \in Payloads :
        \E raises \in RaisePoints(p), search \in Answers \cup { "uncalled" } :
            \E get \in GetAnswers(search) :
                submit_feedback(trace_id, rating, p, search, get, 0, raises)

RouteSpec == FeedbackInit /\ [][RouteNext]_vars

\* ---------------------------------------------------------------- claims
\* a text of the form fb-[0-9a-f]{16}
IsFeedbackId(id) ==
    /\ Len(id) = 19
    /\ SubSeq(id, 1, 3) = <<"f", "b", "-">>
    /\ \A i \in 4..19 : \E h \in DOMAIN HexDigits : id[i] = HexDigits[h]

\* the step is a call of the method: every call leaves its name in fb_ret
\* (a call that changes nothing at all is a stuttering step)
Called(op) == fb_ret'.op = op

\* C11: record_feedback with a rating other than thumbs_up and thumbs_down
\* raises ValueError, appends nothing to the local history and logs nothing
\* in the trace store, whatever the state and the other arguments.
C11_InvalidRatingRejected ==
    [][(Called("record_feedback")
        /\ fb_ret'.args.rating \notin { <<"thumbs_up">>, <<"thumbs_down">> }) =>
           /\ fb_ret'.kind = "error"
           /\ fb_ret'.value = <<"ValueError">>
           /\ _feedback_history' = _feedback_history
           /\ emitted' = << >>
    ]_vars

\* C11 witness: with the trace store available and a record already in the
\* history, a submission with a comment and a corrected output was rejected
C11_Witness ==
    /\ mlflow_enabled /\ _feedback_enabled
    /\ fb_ret.op = "record_feedback" /\ fb_ret.kind = "error"
    /\ fb_ret.args.rating = <<"Positive">>
    /\ fb_ret.args.comment # None
    /\ Len(_feedback_history) >= 1
    /\ emitted = << >>

\* C12: record_feedback with a valid rating returns the feedback id it
\* generated, of the form fb-<16 hex digits> and new in the history, and
\* appends the record with that id and the submitted fields to the local
\* history, whether the trace store is disabled, every log_feedback call
\* succeeds, or any of them raises.
C12_LocalAlwaysSucceeds ==
    [][(Called("record_feedback")
        /\ fb_ret'.args.rating \in { <<"thumbs_up">>, <<"thumbs_down">> }) =>
           /\ fb_ret'.kind = "value"
           /\ IsFeedbackId(fb_ret'.value)
           /\ Len(_feedback_history') = Len(_feedback_history) + 1
           /\ SubSeq(_feedback_history', 1, Len(_feedback_history)) = _feedback_history
           /\ LET record == _feedback_history'[Len(_feedback_history')]
              IN /\ record.feedback_id = fb_ret'.value
                 /\ record.trace_id = fb_ret'.args.trace_id
                 /\ record.rating = fb_ret'.args.rating
                 /\ record.corrected_output = fb_ret'.args.corrected_output
                 /\ record.comment = fb_ret'.args.comment
                 /\ \A i \in DOMAIN _feedback_history :
                        _feedback_history[i].feedback_id # record.feedback_id
    ]_vars

\* C12 witness: the trace store is enabled and the first log_feedback call
\* of a submission raised; the submission returned its id and is in the history
C12_Witness ==
    /\ mlflow_enabled /\ _feedback_enabled
    /\ fb_ret.op = "record_feedback" /\ fb_ret.kind = "value"
    /\ emitted = << >>
    /\ Len(_feedback_history) >= 1
    /\ _feedback_history[Len(_feedback_history)].feedback_id = fb_ret.value

\* C13: with the trace store enabled, validate_trace_exists returns True
\* whenever a query it issues raises (search_traces, or get_trace after an
\* empty search), and False only when both answered without a trace.
C13_FailsOpen ==
    [][(Called("validate_trace_exists") /\ _is_available) =>
           LET search == fb_ret'.args.search_traces
               get == fb_ret'.args.get_trace
           IN /\ (search = "raise" \/ get = "raise") => fb_ret'.value = TRUE
              /\ fb_ret'.value = FALSE => (search = "empty" /\ get = "empty")
    ]_vars

\* where a record of the history was submitted: its index
Submitted(record) ==
    CHOOSE i \in DOMAIN _feedback_history : _feedback_history[i] = record

\* C14: get_feedback_history(trace_id, limit) returns min(limit, matching)
\* records, all of the given trace when one is given, each one a record of
\* the history, and a record submitted later never comes after one submitted
\* earlier; a history of one record of trace t is returned as that record,
\* with the rating and the comment it was submitted with.
C14_NewestFirst ==
    [][/\ Called("get_feedback_history") =>
           LET result == fb_ret'.value
               trace_id == fb_ret'.args.trace_id
               limit == fb_ret'.args.limit
               matching == { i \in DOMAIN _feedback_history :
                               trace_id # None =>
                                   _feedback_history[i].trace_id = trace_id }
           IN /\ _feedback_history' = _feedback_history
              /\ Len(result) <= limit
              /\ Len(result) = (IF limit < Cardinality(matching)
                                THEN limit ELSE Cardinality(matching))
              /\ \A j \in DOMAIN result :
                     \E i \in matching : _feedback_history[i] = result[j]
              /\ \A i, j \in DOMAIN result :
                     i < j => Submitted(result[i]) > Submitted(result[j])
              /\ (Len(_feedback_history) = 1 /\ limit = 100
                  /\ _feedback_history[1].trace_id = trace_id) =>
                     result = _feedback_history
       /\ (Called("record_feedback") /\ fb_ret'.kind = "value") =>
              /\ _feedback_history'[Len(_feedback_history')].rating = fb_ret'.args.rating
              /\ _feedback_history'[Len(_feedback_history')].comment = fb_ret'.args.comment
    ]_vars

\* ================================================================ DataExporter
\* autodspy/serving/data_exporter.py. The exporter keeps no state of its own;
\* traces_df is the table a query returned and an export reads. A row of the
\* table has the columns trace_id, inputs, outputs, corrected_output and rating;
\* inputs, outputs and corrected_output are JSON texts or "". The columns
\* comment, timestamp and model_name are never read by an export and are left
\* out of the rows.

\* ---------------------------------------------------------------- json.loads
Whitespace == { " ", "\n", "\r" }

Min(S) == Bind(S, LAMBDA T : CHOOSE x \in T : \A y \in T : x <= y)

\* the character at position i, "" past the end
At(s, i) == Bind(i, LAMBDA j : IF j \in 1..Len(s) THEN s[j] ELSE "")

\* the first position from i on that holds no whitespace
SkipWs(s, i) == Min({ j \in i..(Len(s) + 1) : At(s, j) \notin Whitespace })

ParseFail == [ ok |-> FALSE, value |-> << >>, next |-> 0 ]

\* the characters of a string literal from position i up to its closing quote
RECURSIVE ScanString(_, _, _)
ScanString(s, i, acc) ==
    Bind([ i |-> i, acc |-> acc ], LAMBDA x :
        IF x.i > Len(s) \/ s[x.i] \in { "\n", "\r" } THEN ParseFail
        ELSE IF s[x.i] = "\"" THEN [ ok |-> TRUE, value |-> x.acc, next |-> x.i + 1 ]
        ELSE IF s[x.i] = "\\"
             THEN IF At(s, x.i + 1) \in { "\"", "\\" }
                  THEN ScanString(s, x.i + 2, Append(x.acc, s[x.i + 1]))
                  ELSE ParseFail
        ELSE ScanString(s, x.i + 1, Append(x.acc, s[x.i])))

ParseString(s, i) ==
    Bind(i, LAMBDA j : IF At(s, j) = "\"" THEN ScanString(s, j + 1, << >>) ELSE ParseFail)

\* what follows a member or an element that ends before position i: another
\* one after a comma ("more"), the closing bracket ("end"), or neither
ParseRest(s, i, close) ==
    Bind(SkipWs(s, i), LAMBDA end :
        IF At(s, end) = "," THEN [ kind |-> "more", next |-> SkipWs(s, end + 1) ]
        ELSE IF At(s, end) = close THEN [ kind |-> "end", next |-> end + 1 ]
        ELSE [ kind |-> "fail", next |-> 0 ])

\* the members of an object from position i on; a repeated key keeps its last value
RECURSIVE ParseMembers(_, _, _)
ParseMembers(s, i, acc) ==
    Bind(ParseString(s, i), LAMBDA key :
        Bind(SkipWs(s, key.next), LAMBDA colon :
            IF ~key.ok \/ At(s, colon) # ":" THEN ParseFail
            ELSE Bind(ParseString(s, SkipWs(s, colon + 1)), LAMBDA val :
                     IF ~val.ok THEN ParseFail
                     ELSE Bind(ParseRest(s, val.next, "}"), LAMBDA rest :
                              IF rest.kind = "more"
                              THEN ParseMembers(s, rest.next,
                                                SetItem(acc, key.value, val.value))
                              ELSE IF rest.kind = "end"
                              THEN [ ok |-> TRUE,
                                     value |-> SetItem(acc, key.value, val.value),
                                     next |-> rest.next ]
                              ELSE ParseFail))))

ParseObject(s, i) ==
    Bind([ i |-> i, j |-> SkipWs(s, i + 1) ], LAMBDA x :
        IF At(s, x.i) # "{" THEN ParseFail
        ELSE IF At(s, x.j) = "}" THEN [ ok |-> TRUE, value |-> << >>, next |-> x.j + 1 ]
        ELSE ParseMembers(s, x.j, << >>))

RECURSIVE ParseElements(_, _, _)
ParseElements(s, i, acc) ==
    Bind(ParseObject(s, i), LAMBDA obj :
        IF ~obj.ok THEN ParseFail
        ELSE Bind(ParseRest(s, obj.next, "]"), LAMBDA rest :
                 IF rest.kind = "more"
                 THEN ParseElements(s, rest.next, Append(acc, obj.value))
                 ELSE IF rest.kind = "end"
                 THEN [ ok |-> TRUE, value |-> Append(acc, obj.value), next |-> rest.next ]
                 ELSE ParseFail))

ParseArray(s, i) ==
    Bind([ i |-> i, j |-> SkipWs(s, i + 1) ], LAMBDA x :
        IF At(s, x.i) # "[" THEN ParseFail
        ELSE IF At(s, x.j) = "]" THEN [ ok |-> TRUE, value |-> << >>, next |-> x.j + 1 ]
        ELSE ParseElements(s, x.j, << >>))

\* json.loads(text) for the documents of the model: an object whose values are
\* strings, or an array of such objects. ok = FALSE is json.JSONDecodeError.
json_loads(text) ==
    Bind(text, LAMBDA s :
        Bind(SkipWs(s, 1), LAMBDA i :
            Bind(IF At(s, i) = "{" THEN ParseObject(s, i)
                 ELSE IF At(s, i) = "[" THEN ParseArray(s, i)
                 ELSE ParseFail, LAMBDA r :
                IF r.ok /\ SkipWs(s, r.next) = Len(s) + 1
                THEN [ ok |-> TRUE, value |-> r.value ]
                ELSE [ ok |-> FALSE, value |-> << >> ])))

\* ---------------------------------------------------------------- json.dumps(indent=2)
Indent(n) == [ i \in 1..n |-> " " ]

\* one dict at indentation level 1 of the array
dumps_object(d) ==
    Bind(d, LAMBDA x :
        IF x = << >> THEN << "{", "}" >>
        ELSE << "{", "\n" >>
             \o Join([ i \in DOMAIN x |-> Indent(4) \o JsonItem(x[i], << ":", " " >>) ],
                     << ",", "\n" >>)
             \o << "\n" >> \o Indent(2) \o << "}" >>)

\* json.dumps(records, ensure_ascii=False, indent=2).encode("utf-8")
_export_json(records) ==
    Bind(records, LAMBDA rs :
        IF rs = << >> THEN << "[", "]" >>
        ELSE << "[", "\n" >>
             \o Join([ i \in DOMAIN rs |-> Indent(2) \o dumps_object(rs[i]) ],
                     << ",", "\n" >>)
             \o << "\n", "]" >>)

\* ---------------------------------------------------------------- csv
RECURSIVE sorted(_)
sorted(S) ==
    Bind(S, LAMBDA T :
        IF T = {} THEN << >>
        ELSE Bind(CHOOSE x \in T : \A y \in T \ {x} : StrLess(x, y), LAMBDA m :
                 << m >> \o sorted(T \ {m})))

\* csv.writer with the default dialect: a field holding the delimiter, the quote
\* character or a character of the line terminator is quoted, its quotes doubled
csv_field(cell) ==
    Bind(cell, LAMBDA c :
        IF \E i \in DOMAIN c : c[i] \in { ",", "\"", "\r", "\n" }
        THEN << "\"" >>
             \o Concat([ i \in DOMAIN c |->
                           IF c[i] = "\"" THEN << "\"", "\"" >> ELSE << c[i] >> ])
             \o << "\"" >>
        ELSE c)

\* one written row; a row of one empty field is written as ""
writerow(cells) ==
    Bind(cells, LAMBDA cs :
        IF cs = << << >> >> THEN << "\"", "\"", "\r", "\n" >>
        ELSE Join([ i \in DOMAIN cs |-> csv_field(cs[i]) ], << "," >>) \o << "\r", "\n" >>)

MinimalCsv == << "i", "n", "p", "u", "t", "s", ",", "o", "u", "t", "p", "u", "t", "s", "\n" >>
MinimalJson == << "[", "]" >>

\* the columns: the content fields sorted, then the "_" fields sorted
fieldnames(records) ==
    Bind(UNION { Keys(records[i]) : i \in DOMAIN records }, LAMBDA all_fields :
        sorted({ f \in all_fields : At(f, 1) # "_" })
        \o sorted({ f \in all_fields : At(f, 1) = "_" }))

\* the cells of one record under the given columns: a missing field is ""
cells_of(record, columns) ==
    [ i \in DOMAIN columns |->
        IF columns[i] \in Keys(record) THEN Get(record, columns[i]) ELSE << >> ]

_export_csv(records) ==
    Bind(records, LAMBDA rs :
        IF rs = << >> THEN MinimalCsv
        ELSE Bind(fieldnames(rs), LAMBDA columns :
                 writerow(columns)
                 \o Concat([ i \in DOMAIN rs |-> writerow(cells_of(rs[i], columns)) ])))

\* ---------------------------------------------------------------- export_training_data
\* a variant in which no table counts as empty
empty_Never(df) == FALSE

\* traces_df.empty
empty(df) == df = << >>

\* a variant that lays the corrected fields over the original ones
outputs_of_Merged(row, use_corrected_output) ==
    Merge(json_loads(row.outputs).value,
          IF use_corrected_output THEN json_loads(row.corrected_output).value ELSE << >>)

\* lines 294-314: the corrected output when it is asked for, present and
\* parses; the original output otherwise
outputs_of(row, use_corrected_output) ==
    Bind(IF use_corrected_output /\ row.corrected_output # << >>
         THEN json_loads(row.corrected_output) ELSE ParseFail, LAMBDA corrected :
        IF corrected.ok THEN corrected.value
        ELSE IF row.outputs = << >> THEN << >>
        ELSE Bind(json_loads(row.outputs), LAMBDA original :
                 IF original.ok THEN original.value
                 ELSE << [ k |-> << "o", "u", "t", "p", "u", "t" >>, v |-> row.outputs ] >>))

\* lines 284-292
inputs_of(row) ==
    IF row.inputs = << >> THEN << >>
    ELSE Bind(json_loads(row.inputs), LAMBDA parsed :
             IF parsed.ok THEN parsed.value
             ELSE << [ k |-> << "i", "n", "p", "u", "t" >>, v |-> row.inputs ] >>)

TraceIdField == << "_", "t", "r", "a", "c", "e", "_", "i", "d" >>
RatingField == << "_", "r", "a", "t", "i", "n", "g" >>

\* lines 283-325: the training record of one row
training_record(row, use_corrected_output) ==
    Bind(row, LAMBDA r :
        Bind(Merge(inputs_of(r), outputs_of(r, use_corrected_output)), LAMBDA record :
            Bind(IF r.trace_id # << >>
                 THEN SetItem(record, TraceIdField, r.trace_id) ELSE record, LAMBDA with_id :
                IF r.rating # << >> THEN SetItem(with_id, RatingField, r.rating)
                ELSE with_id)))

training_records(df, use_corrected_output) ==
    [ i \in DOMAIN df |-> training_record(df[i], use_corrected_output) ]

\* export_training_data(traces_df, format, use_corrected_output): the bytes
export_training_data_bytes(df, format, use_corrected_output) ==
    Bind(df, LAMBDA rows :
        IF empty(rows)
        THEN IF format = "csv" THEN MinimalCsv ELSE MinimalJson
        ELSE IF format = "csv" THEN _export_csv(training_records(rows, use_corrected_output))
        ELSE _export_json(training_records(rows, use_corrected_output)))

\* ---------------------------------------------------------------- export_streaming
\* s.split(sep) for a one-character separator
RECURSIVE split(_, _)
split(s, sep) ==
    Bind(s, LAMBDA x :
        IF \A i \in DOMAIN x : x[i] # sep THEN << x >>
        ELSE Bind(Min({ i \in DOMAIN x : x[i] = sep }), LAMBDA hit :
                 << SubSeq(x, 1, hit - 1) >> \o split(SubSeq(x, hit + 1, Len(x)), sep)))

\* s.strip()
strip(s) ==
    Bind(s, LAMBDA x :
        Bind({ i \in DOMAIN x : x[i] \notin Whitespace }, LAMBDA kept :
            IF kept = {} THEN << >>
            ELSE SubSeq(x, Min(kept), CHOOSE i \in kept : \A j \in kept : j <= i)))

\* a variant that separates every chunk, the first one too
separator_due_Always(first_chunk) == TRUE

\* lines 428-429: a separator goes before every chunk but the first
separator_due(first_chunk) == ~first_chunk

\* a variant whose chunks run one row too far, into the next chunk
chunk_df_Overlap(df, start_idx, chunk_size) ==
    SubSeq(df, start_idx + 1, IF start_idx + chunk_size + 1 < Len(df)
                              THEN start_idx + chunk_size + 1 ELSE Len(df))

\* traces_df.iloc[start_idx:end_idx]
chunk_df(df, start_idx, chunk_size) ==
    SubSeq(df, start_idx + 1, IF start_idx + chunk_size < Len(df)
                              THEN start_idx + chunk_size ELSE Len(df))

\* lines 409-411: the export of the chunk that starts at start_idx
chunk_data(df, a, start_idx) ==
    export_training_data_bytes(chunk_df(df, start_idx, a.chunk_size),
                               a.format, a.use_corrected_output)

\* lines 424-426: the chunk's array without its brackets
json_str(data) ==
    Bind(strip(data), LAMBDA stripped : strip(SubSeq(stripped, 2, Len(stripped) - 1)))

\* The generator runs from its position to its next yield or to its end.
\* Positions: "start" before the first next(), "after_empty" after the one
\* chunk of an empty table, "loop" at the head of the loop of line 402, "elem"
\* between the separator and the elements of a JSON chunk, "after_close" after
\* the closing bracket, "done" once it has returned.
RECURSIVE run(_, _, _)
run(df, a, g) ==
    LET next_iteration == [ pc |-> "loop", start_idx |-> g.start_idx + a.chunk_size,
                            first_chunk |-> FALSE ]
        stop == [ out |-> << >>, gen |-> [ g EXCEPT !.pc = "done" ] ]
    IN  CASE g.pc = "start" ->
               IF empty(df)
               THEN [ out |-> << IF a.format = "csv" THEN MinimalCsv ELSE MinimalJson >>,
                      gen |-> [ g EXCEPT !.pc = "after_empty" ] ]
               ELSE IF a.format = "json"
               THEN [ out |-> << << "[", "\n" >> >>, gen |-> [ g EXCEPT !.pc = "loop" ] ]
               ELSE run(df, a, [ g EXCEPT !.pc = "loop" ])
          [] g.pc = "loop" /\ g.start_idx >= Len(df) ->
               IF a.format = "json"
               THEN [ out |-> << << "\n", "]" >> >>, gen |-> [ g EXCEPT !.pc = "after_close" ] ]
               ELSE stop
          [] g.pc = "loop" /\ g.start_idx < Len(df) /\ a.format = "csv" ->
               IF g.first_chunk
               THEN [ out |-> << chunk_data(df, a, g.start_idx) >>, gen |-> next_iteration ]
               ELSE Bind(split(chunk_data(df, a, g.start_idx), "\n"), LAMBDA lines :
                        IF Len(lines) > 1
                        THEN [ out |-> << Join(Tail(lines), << "\n" >>) >>,
                               gen |-> next_iteration ]
                        ELSE run(df, a, next_iteration))
          [] g.pc = "loop" /\ g.start_idx < Len(df) /\ a.format = "json" ->
               Bind(json_str(chunk_data(df, a, g.start_idx)), LAMBDA body :
                   IF body = << >> THEN run(df, a, next_iteration)
                   ELSE IF separator_due(g.first_chunk)
                   THEN [ out |-> << << ",", "\n" >> >>, gen |-> [ g EXCEPT !.pc = "elem" ] ]
                   ELSE [ out |-> << body >>, gen |-> next_iteration ])
          [] g.pc = "elem" ->
               [ out |-> << json_str(chunk_data(df, a, g.start_idx)) >>,
                 gen |-> next_iteration ]
          [] OTHER -> stop

\* next(generator): the generator's next chunk, or its end; a generator that has
\* returned stays at its end and gives nothing
export_streaming_next ==
    /\ gen.pc # "none"
    /\ LET r == run(traces_df, export_args, gen)
       IN  /\ yielded' = yielded \o r.out
           /\ gen' = r.gen
    /\ UNCHANGED << traces_df, export_args, exported, query_ret >>
    /\ UNCHANGED << manager_vars, now, mlflow_enabled, feedback_vars >>

\* export_training_data(traces_df, format, use_corrected_output)
export_training_data ==
    /\ gen.pc # "none"
    /\ exported.kind = "none"
    /\ exported' = [ kind |-> "value",
                     bytes |-> export_training_data_bytes(traces_df, export_args.format,
                                                          export_args.use_corrected_output) ]
    /\ UNCHANGED << traces_df, export_args, gen, yielded, query_ret >>
    /\ UNCHANGED << manager_vars, now, mlflow_enabled, feedback_vars >>

\* ---------------------------------------------------------------- query_traces_with_feedback
\* A raw trace row as mlflow.search_traces returns it. A value carries its
\* Python type: "none", "str", "dict", "bool" or "int"; a bool is << "True" >> or
\* << >>, an int << "1" >> or << >> for 0, so that truth is "not empty".
Val(type, value) == [ type |-> type, value |-> value ]

Item(k, v) == << [ k |-> k, v |-> v ] >>

RawTraces ==
    { [ trace_id |-> << "t", "1" >>,
        inputs |-> Val("dict", Item(<< "q" >>, << "1" >>)),
        outputs |-> Val("dict", Item(<< "a" >>, << "2" >>)),
        assessments |-> << [ name |-> "user_rating", value |-> Val("bool", << "True" >>) ],
                           [ name |-> "corrected_output",
                             value |-> Val("dict", Item(<< "a" >>, << "3" >>)) ] >>,
        timestamp_ms |-> Val("int", << "1" >>) ],
      [ trace_id |-> << "t", "2" >>,
        inputs |-> Val("str", json_dumps(Item(<< "q" >>, << "1" >>))),
        outputs |-> Val("none", << >>),
        assessments |-> << >>,
        timestamp_ms |-> Val("int", << >>) ],
      [ trace_id |-> << "t", "3" >>,
        inputs |-> Val("str", << "{", "\"", "q", "\"" >>),
        outputs |-> Val("dict", Item(<< "a" >>, << "2" >>)),
        assessments |-> << [ name |-> "user_rating", value |-> Val("bool", << >>) ] >>,
        timestamp_ms |-> Val("str", << "x" >>) ] }

\* what the trace store does with a search
Searches == { "raise", "rows" }

\* lines 56-58
exporter_is_available == mlflow_enabled

\* lines 213-224: the dict of an inputs or outputs cell, None (<< >>) for
\* anything else and for a text that does not parse
_extract_trace_io(value) ==
    IF value.type = "str" THEN json_loads(value.value).value
    ELSE IF value.type = "dict" THEN value.value
    ELSE << >>

\* lines 242-253: the value of the first assessment of that name, None without one
_extract_assessment_value(assessments, assessment_name) ==
    IF \A i \in DOMAIN assessments : assessments[i].name # assessment_name
    THEN Val("none", << >>)
    ELSE assessments[Min({ i \in DOMAIN assessments :
                             assessments[i].name = assessment_name })].value

\* lines 163-197: the table row of a raw trace; ok = FALSE is the None the
\* method returns when anything in it raises, here the division of a
\* timestamp_ms that is not a number
_process_trace_row(trace_row) ==
    Bind([ inputs |-> _extract_trace_io(trace_row.inputs),
           outputs |-> _extract_trace_io(trace_row.outputs),
           rating |-> _extract_assessment_value(trace_row.assessments, "user_rating"),
           corrected_output |->
               _extract_assessment_value(trace_row.assessments, "corrected_output"),
           timestamp |-> trace_row.timestamp_ms ], LAMBDA x :
        IF x.timestamp.value # << >> /\ x.timestamp.type # "int"
        THEN [ ok |-> FALSE, record |-> << >> ]
        ELSE [ ok |-> TRUE,
               record |->
                 [ trace_id |-> trace_row.trace_id,
                   inputs |-> IF x.inputs # << >> THEN json_dumps(x.inputs) ELSE << >>,
                   outputs |-> IF x.outputs # << >> THEN json_dumps(x.outputs) ELSE << >>,
                   corrected_output |-> IF x.corrected_output.value # << >>
                                        THEN json_dumps(x.corrected_output.value)
                                        ELSE << >>,
                   rating |-> IF x.rating.value # << >>
                              THEN << "thumbs_up" >> ELSE << "thumbs_down" >> ] ])

\* a variant in which a row that cannot be processed fails the whole loop, which
\* the handler of line 144 turns into an empty table
process_rows_AllOrNothing(traces) ==
    Bind([ i \in DOMAIN traces |-> _process_trace_row(traces[i]) ], LAMBDA records :
        IF \E i \in DOMAIN records : ~records[i].ok THEN << >>
        ELSE [ i \in DOMAIN records |-> records[i].record ])

\* lines 134-140: the rows of the traces that could be processed, in order
RECURSIVE process_rows(_)
process_rows(traces) ==
    Bind(traces, LAMBDA rows :
        IF rows = << >> THEN << >>
        ELSE Bind(_process_trace_row(Head(rows)), LAMBDA record :
                 (IF record.ok THEN << record.record >> ELSE << >>)
                 \o process_rows(Tail(rows))))

\* query_traces_with_feedback(...): search is what the trace store does, traces
\* the raw rows it returns. The filter arguments only shape the text handed to
\* the store.
query_traces_with_feedback(search, traces) ==
    /\ query_ret.kind = "none"
    /\ gen.pc = "start" /\ exported.kind = "none" /\ traces_df = << >>
    /\ IF ~exporter_is_available
       THEN /\ search = "uncalled" /\ traces = << >>
            /\ traces_df' = << >>
       ELSE /\ search \in Searches
            /\ IF search = "raise"
               THEN traces = << >> /\ traces_df' = << >>
               ELSE traces_df' = process_rows(traces)
    /\ query_ret' = [ kind |-> "value", search |-> search, traces |-> traces ]
    /\ UNCHANGED << export_args, gen, yielded, exported >>
    /\ UNCHANGED << manager_vars, now, mlflow_enabled, feedback_vars >>

\* ---------------------------------------------------------------- the exporter's inputs
\* the rows of a table handed to an export
Rows ==
    { \* a rated trace without a correction
      [ trace_id |-> << "t", "1" >>,
        inputs |-> json_dumps(Item(<< "q" >>, << "1" >>)),
        outputs |-> json_dumps(Item(<< "a" >>, << "2" >>)),
        corrected_output |-> << >>,
        rating |-> << "thumbs_up" >> ],
      \* a correction of the same field
      [ trace_id |-> << "t", "2" >>,
        inputs |-> json_dumps(Item(<< "q" >>, << "1" >>)),
        outputs |-> json_dumps(Item(<< "a" >>, << "2" >>)),
        corrected_output |-> json_dumps(Item(<< "a" >>, << "3", ",", "3" >>)),
        rating |-> << "thumbs_up" >> ],
      \* a correction with another field
      [ trace_id |-> << "t", "3" >>,
        inputs |-> json_dumps(Item(<< "q" >>, << "1" >>)),
        outputs |-> json_dumps(Item(<< "a" >>, << "2" >>)),
        corrected_output |-> json_dumps(Item(<< "b" >>, << "3" >>)),
        rating |-> << "thumbs_down" >> ],
      \* texts that are not JSON, no id and no rating
      [ trace_id |-> << >>,
        inputs |-> << "{", "\"", "q", "\"" >>,
        outputs |-> << >>,
        corrected_output |-> << "{" >>,
        rating |-> << >> ],
      \* nothing at all
      [ trace_id |-> << >>, inputs |-> << >>, outputs |-> << >>,
        corrected_output |-> << >>, rating |-> << >> ] }

Formats == { "csv", "json" }
ChunkSizes == { 1, 2 }

Tables(S) == UNION { [ 1..n -> S ] : n \in 0..MaxRows }

\* a table, the arguments of an export of it, and the generator export_streaming
\* returns for them, not yet advanced
ExportInit ==
    /\ ManagerIdle
    /\ FeedbackIdle
    /\ now = 0
    /\ mlflow_enabled \in BOOLEAN
    /\ traces_df \in Tables(Rows)
    /\ export_args \in [ format : Formats, use_corrected_output : BOOLEAN,
                         chunk_size : ChunkSizes ]
    /\ gen = [ pc |-> "start", start_idx |-> 0, first_chunk |-> TRUE ]
    /\ yielded = << >>
    /\ exported = NoExported
    /\ query_ret = NoQueryRet

ExportNext ==
    \/ export_training_data
    \/ export_streaming_next
    \/ \E traces \in Tables(RawTraces) :
           \E search \in Searches \cup { "uncalled" } :
               query_traces_with_feedback(search, traces)

ExportSpec == ExportInit /\ [][ExportNext]_vars

\* ---------------------------------------------------------------- the exporter's claims
\* the generator has returned
Exhausted == gen.pc = "done"

\* the training records the table stands for
Records == training_records(traces_df, export_args.use_corrected_output)

\* C15: for every list of records, records whose field sets differ included, and
\* every chunk size, the chunks of the CSV stream put together are byte for byte
\* what export_training_data returns for the whole list.
C15_CsvStreamEqualsBytes ==
    (Exhausted /\ export_args.format = "csv")
        => Concat(yielded)
             = export_training_data_bytes(traces_df, "csv", export_args.use_corrected_output)

\* the header row the first chunk of the stream carries
FirstHeader ==
    fieldnames(training_records(chunk_df(traces_df, 0, export_args.chunk_size),
                                export_args.use_corrected_output))

\* C16: for a table that is not empty the CSV stream is one header row, the first
\* row of the first chunk, followed by one row per record whose cells are in the
\* column order of that header.
C16_OneHeaderOrdersEveryRow ==
    (Exhausted /\ export_args.format = "csv" /\ traces_df # << >>)
        => Concat(yielded)
             = writerow(FirstHeader)
               \o Concat([ i \in DOMAIN Records |-> writerow(cells_of(Records[i], FirstHeader)) ])

\* the number of chunks the table is cut into
NumChunks == (Len(traces_df) + export_args.chunk_size - 1) \div export_args.chunk_size

\* C17: for a table that is not empty the JSON stream is a "[" chunk, element
\* chunks separated by comma chunks, and a "]" chunk; put together they are one
\* valid JSON array with exactly the elements, in order, of the array
\* export_training_data returns.
C17_JsonStreamIsTheArray ==
    (Exhausted /\ export_args.format = "json" /\ traces_df # << >>)
        => LET n == Len(yielded)
               stream == json_loads(Concat(yielded))
               whole == json_loads(export_training_data_bytes(
                                       traces_df, "json", export_args.use_corrected_output))
           IN  /\ n = 2 * NumChunks + 1
               /\ yielded[1] = << "[", "\n" >>
               /\ yielded[n] = << "\n", "]" >>
               /\ \A i \in 2..(n - 1) :
                      IF i % 2 = 0
                      THEN /\ json_loads(<< "[" >> \o yielded[i] \o << "]" >>).ok
                           /\ yielded[i] # << >>
                      ELSE yielded[i] = << ",", "\n" >>
               /\ stream.ok /\ whole.ok
               /\ stream.value = whole.value
               /\ stream.value = Records

C17_Witness ==
    /\ Exhausted /\ export_args.format = "json" /\ export_args.chunk_size = 1
    /\ Len(traces_df) = 2
    /\ Len(yielded) = 5
    /\ yielded[3] = << ",", "\n" >>
    /\ Len(json_loads(Concat(yielded)).value) = 2

\* the row has a corrected output: the column holds a JSON object
HasCorrected(row) == row.corrected_output # << >> /\ json_loads(row.corrected_output).ok

\* the output an export is to take from a row
ExpectedOutput(row) ==
    IF export_args.use_corrected_output /\ HasCorrected(row)
    THEN json_loads(row.corrected_output).value
    ELSE json_loads(row.outputs).value

MetaOf(row) ==
    (IF row.trace_id # << >> THEN { TraceIdField } ELSE {})
    \cup (IF row.rating # << >> THEN { RatingField } ELSE {})

\* C18: the JSON export parsed back is one training record per row, in order; the
\* output fields of each are those of the corrected output when corrected output
\* is asked for and the row has one, and those of the original output otherwise.
C18_CorrectedOutputWins ==
    (exported.kind = "value" /\ export_args.format = "json")
        => LET back == json_loads(exported.bytes)
           IN  /\ back.ok
               /\ Len(back.value) = Len(traces_df)
               /\ \A i \in DOMAIN traces_df :
                      LET record == back.value[i]
                          output == ExpectedOutput(traces_df[i])
                      IN  /\ \A j \in DOMAIN output : Get(record, output[j].k) = output[j].v
                          /\ Keys(record) = Keys(inputs_of(traces_df[i])) \cup Keys(output)
                                              \cup MetaOf(traces_df[i])
                          /\ traces_df[i].trace_id # << >>
                                => Get(record, TraceIdField) = traces_df[i].trace_id

C18_Witness ==
    /\ exported.kind = "value" /\ export_args.format = "json"
    /\ export_args.use_corrected_output
    /\ Len(traces_df) = 2
    /\ ~HasCorrected(traces_df[1]) /\ traces_df[1].outputs # << >>
    /\ HasCorrected(traces_df[2])
    /\ Get(json_loads(exported.bytes).value[1], << "a" >>) = << "2" >>
    /\ Get(json_loads(exported.bytes).value[2], << "b" >>) = << "3" >>
    /\ << "a" >> \notin Keys(json_loads(exported.bytes).value[2])

MinimalDocument == IF export_args.format = "csv" THEN MinimalCsv ELSE MinimalJson

\* C19: for an empty table export_training_data returns the minimal document,
\* "inputs,outputs\n" or "[]", and the stream yields that one chunk and then
\* ends; neither raises.
C19_EmptyIsMinimal ==
    traces_df = << >>
        => /\ exported.kind \in { "none", "value" }
           /\ exported.kind = "value" => exported.bytes = MinimalDocument
           /\ gen.pc \in { "start", "after_empty", "done" }
           /\ gen.pc = "start" => yielded = << >>
           /\ gen.pc # "start" => yielded = << MinimalDocument >>

C19_Witness ==
    /\ traces_df = << >> /\ query_ret.kind = "none"
    /\ Exhausted /\ yielded = << MinimalCsv >>
    /\ exported.kind = "value" /\ exported.bytes = MinimalCsv

\* a raw trace whose timestamp can be converted
Processable(trace) == trace.timestamp_ms.type = "int"

\* C20: query_traces_with_feedback never raises; with the trace store disabled,
\* with a search that raises and with a search that returns nothing it returns
\* an empty table; a raw trace that cannot be processed is left out and the
\* others are returned, in order.
C20_QueryNeverRaises ==
    [][ query_ret' # query_ret
          => /\ query_ret'.kind = "value"
             /\ (~mlflow_enabled \/ query_ret'.search = "raise" \/ query_ret'.traces = << >>)
                   => traces_df' = << >>
             /\ LET kept == SelectSeq(query_ret'.traces, Processable)
                IN  /\ Len(traces_df') = Len(kept)
                    /\ \A i \in DOMAIN kept : traces_df'[i].trace_id = kept[i].trace_id ]_vars

C20_Witness ==
    /\ query_ret.kind = "value" /\ query_ret.search = "rows"
    /\ Len(query_ret.traces) = 2
    /\ ~Processable(query_ret.traces[1])
    /\ Len(traces_df) = 1
    /\ traces_df[1].trace_id = query_ret.traces[2].trace_id

\* the columns of the chunk the i-th record is exported in
ColumnsAt(i) ==
    LET k == export_args.chunk_size
        lo == ((i - 1) \div k) * k + 1
        hi == IF lo + k - 1 < Len(Records) THEN lo + k - 1 ELSE Len(Records)
    IN  fieldnames(SubSeq(Records, lo, hi))

\* the chunks a stream of the table may yield: one per batch for CSV, and the
\* two brackets and the separators between batches besides for JSON
MaxYields == IF export_args.format = "csv" THEN NumChunks ELSE 2 * NumChunks + 1

\* C30: for a table of n >= 1 records and a chunk size k >= 1 the stream ends
\* after ceil(n/k) batches, every record is serialized exactly once and in input
\* order, none skipped or repeated where two batches meet, and a generator that
\* has ended yields nothing more.
C30_StreamTerminatesEachRecordOnce ==
    traces_df # << >>
        => /\ Len(yielded) <= MaxYields
           /\ gen.start_idx <= NumChunks * export_args.chunk_size
           /\ ~Exhausted => LET r == run(traces_df, export_args, gen)
                             IN  Len(r.out) = 1 \/ (r.out = << >> /\ r.gen.pc = "done")
           /\ Exhausted
                => /\ Len(yielded) = MaxYields
                   /\ gen.start_idx = NumChunks * export_args.chunk_size
                   /\ run(traces_df, export_args, gen).out = << >>
                   /\ IF export_args.format = "json"
                      THEN json_loads(Concat(yielded)).value = Records
                      ELSE Concat(yielded)
                             = writerow(FirstHeader)
                               \o Concat([ i \in DOMAIN Records |->
                                             writerow(cells_of(Records[i], ColumnsAt(i))) ])

C30_Witness ==
    /\ Exhausted /\ export_args.chunk_size = 1 /\ Len(traces_df) = 2
    /\ export_args.format = "csv"
    /\ traces_df[1] # traces_df[2]
    /\ Len(yielded) = 2
    /\ gen.start_idx = 2

\* ================================================================ the manager, statement by statement
\* The same ModelManager with load_model taken apart at the points where the
\* state it leaves differs: after line 307 the load is counted but not yet a hit
\* or a miss; _load_from_mlflow (line 334) and _resolve_version (line 338) are two
\* separate calls to the outside, between which the registry can change.  The
\* registry is the variable registry here, changed by the stage endpoint of
\* dspyui/api/routes/models.py and by anyone else who moves an alias.
\* ---------------------------------------------------------------- inputs
ServingAddresses ==
    { [ name |-> <<"m">>, version |-> <<"1">>, stage |-> None, alias |-> None ],
      [ name |-> <<"m">>, version |-> None, stage |-> None, alias |-> <<"c">> ],
      [ name |-> <<"m", "@", "n">>, version |-> <<"1">>, stage |-> None, alias |-> None ] }
\* the versions alias "c" can be pointed at
AliasVersions == { <<"7">>, <<"8">> }
\* the version a stage transition is asked for; only model "m" has it
TransitionVersions == { <<"3">> }
TransitionStages == { <<"P">>, <<"S">> }

\* ---------------------------------------------------------------- the registry
\* client.get_model_version_by_alias(name, alias).version, None where it raises
alias_version(reg, name, alias) ==
    IF name = <<"m">> /\ alias \in DOMAIN reg.aliases THEN reg.aliases[alias] ELSE None

\* lines 193-197: the first version found in the stage, None without one
stage_version(reg, name, stage) ==
    IF name = <<"m">> /\ \E v \in DOMAIN reg.stages : reg.stages[v] = stage
    THEN CHOOSE v \in DOMAIN reg.stages : reg.stages[v] = stage
    ELSE None

\* lines 158-201, against the registry as it is when the call is made
_resolve_version_now(reg, name, stage, alias) ==
    IF Truthy(alias) THEN alias_version(reg, name, alias)
    ELSE IF Truthy(stage) THEN stage_version(reg, name, stage)
    ELSE None

\* mlflow.artifacts.download_artifacts(model_uri), line 224: the version whose
\* artifact the store delivers for the URI when the call is made; name@x is an
\* alias to the store
delivered_version(reg, a) ==
    IF Truthy(a.version) THEN a.version
    ELSE IF Truthy(a.alias) THEN alias_version(reg, a.name, a.alias)
    ELSE IF Truthy(a.stage) THEN alias_version(reg, a.name, a.stage)
    ELSE <<"latest">>

\* ---------------------------------------------------------------- load_model
\* lines 306-310: take the lock and count the load
load_model_enter(t, a) ==
    /\ pc[t] = "acquire"
    /\ CanAcquire(t)
    /\ stats.total_loads < MaxLoads
    /\ lock' = t
    /\ stats' = count_load(stats)
    /\ args' = [ args EXCEPT ![t] = [ op |-> "load", name |-> a.name, version |-> a.version,
                                      stage |-> a.stage, alias |-> a.alias ] ]
    /\ local' = [ local EXCEPT ![t] =
                    [ cache_key |-> _get_cache_key(a.name, a.version, a.stage, a.alias),
                      model_uri |-> _build_model_uri(a.name, a.version, a.stage, a.alias) ] ]
    /\ pc' = [ pc EXCEPT ![t] = "check" ]
    /\ UNCHANGED << cache, cache_enabled, cache_ttl, now, ret, ghost, registry >>
    /\ UNCHANGED << mlflow_enabled, feedback_vars, exporter_vars >>

\* lines 313-331: a hit returns the entry; otherwise an expired entry is
\* deleted and the miss is counted
load_model_lookup(t) ==
    /\ pc[t] = "check"
    /\ LET cache_key == local[t].cache_key
       IN IF in_cache(cache_key) /\ ~is_expired(cache[cache_key], cache_ttl)
          THEN /\ cache' = [ cache EXCEPT ![cache_key].hit_count = @ + 1 ]
               /\ stats' = count_hit(stats)
               /\ ret' = [ kind |-> "value", count |-> 0, hit |-> TRUE, address |-> args[t],
                           program |-> cache[cache_key].program,
                           version |-> cache[cache_key].version ]
               /\ pc' = [ pc EXCEPT ![t] = "idle" ]
               /\ args' = [ args EXCEPT ![t] = NoArgs ]
               /\ local' = [ local EXCEPT ![t] = NoLocal ]
               /\ lock' = Release(t)
               /\ UNCHANGED ghost
          ELSE /\ cache' = IF in_cache(cache_key) THEN del_key(cache, cache_key) ELSE cache
               /\ stats' = count_miss(stats)
               /\ ghost' = [ ghost EXCEPT !.expired = @ \/ in_cache(cache_key),
                                          !.origin = [ k \in DOMAIN cache' |-> @[k] ] ]
               /\ pc' = [ pc EXCEPT ![t] = "fetch" ]
               /\ UNCHANGED << args, local, lock, ret >>
    /\ UNCHANGED << cache_enabled, cache_ttl, now, registry >>
    /\ UNCHANGED << mlflow_enabled, feedback_vars, exporter_vars >>

\* line 334, _load_from_mlflow returns: the program is the artifact of the
\* version the store resolved the URI to
load_model_download(t) ==
    /\ pc[t] = "fetch"
    /\ Truthy(delivered_version(registry, args[t]))
    /\ local' = [ local EXCEPT ![t] =
                    [ cache_key |-> @.cache_key, model_uri |-> @.model_uri,
                      program |-> [ uri |-> @.model_uri,
                                    version |-> delivered_version(registry, args[t]) ] ] ]
    /\ ghost' = [ ghost EXCEPT !.store_calls = @ + 1 ]
    /\ pc' = [ pc EXCEPT ![t] = "resolve" ]
    /\ UNCHANGED << cache, cache_enabled, cache_ttl, stats, lock, now, args, ret, registry >>
    /\ UNCHANGED << mlflow_enabled, feedback_vars, exporter_vars >>

\* lines 337-351: resolve the version, insert, return
load_model_resolve(t) ==
    /\ pc[t] = "resolve"
    /\ LET a == args[t]
           cache_key == local[t].cache_key
           program == local[t].program
           resolved_version ==
               _resolve_version_now(registry, a.name, a.stage, a.alias)
           actual_version ==
               IF ~Truthy(a.version) /\ (Truthy(a.stage) \/ Truthy(a.alias))
                  /\ Truthy(resolved_version)
               THEN resolved_version
               ELSE _extract_version_from_uri(local[t].model_uri)
       IN /\ cache' = put_model(cache, cache_key, program, actual_version)
          /\ ghost' = [ ghost EXCEPT
                          !.origin = [ k \in DOMAIN cache' |->
                                         IF k = cache_key
                                         THEN Address(a.name, a.version, a.stage, a.alias)
                                         ELSE @[k] ],
                          !.pending = @ \ { a.name } ]
          /\ ret' = [ kind |-> "value", count |-> 0, hit |-> FALSE, address |-> a,
                      program |-> program, version |-> actual_version ]
    /\ pc' = [ pc EXCEPT ![t] = "idle" ]
    /\ args' = [ args EXCEPT ![t] = NoArgs ]
    /\ local' = [ local EXCEPT ![t] = NoLocal ]
    /\ lock' = Release(t)
    /\ UNCHANGED << cache_enabled, cache_ttl, stats, now, registry >>
    /\ UNCHANGED << mlflow_enabled, feedback_vars, exporter_vars >>

\* ---------------------------------------------------------------- the read-only calls
\* lines 405-415, whole method under the lock
get_cache_stats_call(t) ==
    /\ pc[t] = "acquire"
    /\ CanAcquire(t)
    /\ ret' = [ kind |-> "stats", count |-> 0, value |-> get_cache_stats ]
    /\ pc' = [ pc EXCEPT ![t] = "idle" ]
    /\ lock' = Release(t)
    /\ UNCHANGED << cache, cache_enabled, cache_ttl, stats, now, args, local, ghost, registry >>
    /\ UNCHANGED << mlflow_enabled, feedback_vars, exporter_vars >>

\* lines 428-437, whole method under the lock
get_cached_models(t) ==
    /\ pc[t] = "acquire"
    /\ CanAcquire(t)
    /\ ret' = [ kind |-> "models", count |-> 0,
                value |-> [ key \in DOMAIN cache |->
                              [ version |-> cache[key].version,
                                loaded_at |-> cache[key].loaded_at,
                                hit_count |-> cache[key].hit_count,
                                is_expired |-> is_expired(cache[key], cache_ttl) ] ] ]
    /\ pc' = [ pc EXCEPT ![t] = "idle" ]
    /\ lock' = Release(t)
    /\ UNCHANGED << cache, cache_enabled, cache_ttl, stats, now, args, local, ghost, registry >>
    /\ UNCHANGED << mlflow_enabled, feedback_vars, exporter_vars >>

\* ---------------------------------------------------------------- POST /models/{name}/stage
\* dspyui/api/routes/models.py lines 205-226: the version is looked up (404
\* without it) and moved to the stage; no lock of the manager is involved
transition_stage(t, name, version, stage) ==
    /\ pc[t] = "idle"
    /\ IF name = <<"m">> /\ version \in DOMAIN registry.stages
       THEN /\ registry' = [ registry EXCEPT !.stages[version] = stage ]
            /\ args' = [ args EXCEPT ![t] = [ op |-> "transition", name |-> name,
                                              version |-> version, stage |-> stage,
                                              alias |-> None ] ]
            /\ pc' = [ pc EXCEPT ![t] = "invalidate" ]
            /\ UNCHANGED ret
       ELSE /\ ret' = [ kind |-> "http", count |-> 0, status |-> 404, name |-> name ]
            /\ UNCHANGED << registry, args, pc >>
    /\ UNCHANGED << cache, cache_enabled, cache_ttl, stats, lock, now, local, ghost >>
    /\ UNCHANGED << mlflow_enabled, feedback_vars, exporter_vars >>

\* lines 228-243: model_manager.invalidate_cache(name) (lines 363-376 of the
\* manager, under its lock), then the success response
transition_stage_invalidate(t) ==
    /\ pc[t] = "invalidate"
    /\ CanAcquire(t)
    /\ LET removed == keys_to_remove(args[t].name)
       IN /\ cache' = [ k \in DOMAIN cache \ removed |-> cache[k] ]
          /\ stats' = [ stats EXCEPT !.invalidations = @ + Cardinality(removed) ]
          /\ ret' = [ kind |-> "success", count |-> Cardinality(removed),
                      name |-> args[t].name ]
    /\ ghost' = [ ghost EXCEPT !.invalidated = @ \/ DOMAIN cache' # DOMAIN cache,
                               !.origin = [ k \in DOMAIN cache' |-> @[k] ],
                               !.pending = @ \cup { args[t].name } ]
    /\ pc' = [ pc EXCEPT ![t] = "idle" ]
    /\ args' = [ args EXCEPT ![t] = NoArgs ]
    /\ lock' = Release(t)
    /\ UNCHANGED << cache_enabled, cache_ttl, now, local, registry >>
    /\ UNCHANGED << mlflow_enabled, feedback_vars, exporter_vars >>

\* someone moves alias "c" of model "m" to another version
set_registered_model_alias(version) ==
    /\ registry.aliases[<<"c">>] # version
    /\ registry' = [ registry EXCEPT !.aliases[<<"c">>] = version ]
    /\ UNCHANGED << cache, cache_enabled, cache_ttl, stats, lock, now, pc, args, local, ret,
                    ghost >>
    /\ UNCHANGED << mlflow_enabled, feedback_vars, exporter_vars >>

\* ---------------------------------------------------------------- specification
ServingInit ==
    /\ cache = << >>
    /\ cache_enabled = TRUE
    /\ cache_ttl = 0
    /\ stats = CacheStats
    /\ lock = 0
    /\ now = 0
    /\ pc = [ t \in Threads |-> "idle" ]
    /\ args = [ t \in Threads |-> NoArgs ]
    /\ local = [ t \in Threads |-> NoLocal ]
    /\ ret = NoRet
    /\ ghost = [ store_calls |-> 0, key |-> None, same |-> TRUE, failed |-> FALSE,
                 expired |-> FALSE, invalidated |-> FALSE, origin |-> << >>,
                 pending |-> { } ]
    /\ registry = RegistryContent
    /\ mlflow_enabled = TRUE
    /\ FeedbackIdle
    /\ ExporterIdle

ServingNext ==
    \/ \E t \in Threads : Call(t)
    \/ \E t \in Threads, a \in ServingAddresses : load_model_enter(t, a)
    \/ \E t \in Threads : load_model_lookup(t)
    \/ \E t \in Threads : load_model_download(t)
    \/ \E t \in Threads : load_model_resolve(t)
    \/ \E t \in Threads : load_model_failed(t)
    \/ \E t \in Threads, name \in Names : invalidate_cache(t, name)
    \/ \E t \in Threads : invalidate_all(t)
    \/ \E t \in Threads : get_cache_stats_call(t)
    \/ \E t \in Threads : get_cached_models(t)
    \/ \E t \in Threads, name \in Names, version \in TransitionVersions,
          stage \in TransitionStages : transition_stage(t, name, version, stage)
    \/ \E t \in Threads : transition_stage_invalidate(t)
    \/ \E version \in AliasVersions : set_registered_model_alias(version)

ServingSpec == ServingInit /\ [][ServingNext]_vars

\* ---------------------------------------------------------------- entries over time
\* The same manager with the clock running, a time to live of one second and a
\* registry nobody changes: the calls that can add, keep, report or remove an
\* entry.
ResidencyInit ==
    /\ cache = << >>
    /\ cache_enabled = TRUE
    /\ cache_ttl = 1
    /\ stats = CacheStats
    /\ lock = 0
    /\ now = 0
    /\ pc = [ t \in Threads |-> "idle" ]
    /\ args = [ t \in Threads |-> NoArgs ]
    /\ local = [ t \in Threads |-> NoLocal ]
    /\ ret = NoRet
    /\ ghost = [ store_calls |-> 0, key |-> None, same |-> TRUE, failed |-> FALSE,
                 expired |-> FALSE, invalidated |-> FALSE, origin |-> << >>,
                 pending |-> { } ]
    /\ registry = RegistryContent
    /\ mlflow_enabled = TRUE
    /\ FeedbackIdle
    /\ ExporterIdle

ResidencyNext ==
    \/ \E t \in Threads : Call(t)
    \/ \E t \in Threads, a \in ServingAddresses : load_model_enter(t, a)
    \/ \E t \in Threads : load_model_lookup(t)
    \/ \E t \in Threads : load_model_download(t)
    \/ \E t \in Threads : load_model_resolve(t)
    \/ \E t \in Threads : load_model_failed(t)
    \/ \E t \in Threads, name \in Names : invalidate_cache(t, name)
    \/ \E t \in Threads : invalidate_all(t)
    \/ \E t \in Threads : get_cache_stats_call(t)
    \/ \E t \in Threads : get_cached_models(t)
    \/ Tick

ResidencySpec == ResidencyInit /\ [][ResidencyNext]_vars

\* ---------------------------------------------------------------- a store that may not answer
\* What the threads are bound to do: a thread that can take the lock takes it, a
\* thread that holds it goes on with the statements that need nothing from
\* outside.  Nothing obliges the artifact store to answer or to fail: line 224
\* sets no timeout.
LockedCall(t) ==
    \/ \E a \in ServingAddresses : load_model_enter(t, a)
    \/ \E name \in Names : invalidate_cache(t, name)
    \/ invalidate_all(t)
    \/ get_cache_stats_call(t)
    \/ get_cached_models(t)

Scheduling ==
    \A t \in Threads :
        /\ WF_vars(LockedCall(t))
        /\ WF_vars(load_model_lookup(t))
        /\ WF_vars(load_model_resolve(t))

FairResidencySpec == ResidencySpec /\ Scheduling

\* ================================================================ concurrent record_feedback
\* Request threads inside FeedbackService.record_feedback at the same time.  The
\* service has no lock (lines 71-81); a thread can be preempted between any two
\* statements, and list.append itself is one indivisible operation of the
\* interpreter.
\* the submissions made: every combination of corrected output and comment, and
\* one with a rating that is not valid
Submissions ==
    { [ trace_id |-> <<"tr-1">>, rating |-> <<"thumbs_up">>,
        corrected_output |-> None, comment |-> None, user_id |-> None ],
      [ trace_id |-> <<"tr-2">>, rating |-> <<"thumbs_down">>,
        corrected_output |-> << [ k |-> <<"a">>, v |-> <<"3">> ] >>,
        comment |-> <<"nice">>, user_id |-> <<"u">> ],
      [ trace_id |-> <<"tr-1">>, rating |-> <<"thumbs_down">>,
        corrected_output |-> << [ k |-> <<"a">>, v |-> <<"3">> ] >>,
        comment |-> None, user_id |-> None ],
      [ trace_id |-> <<"tr-2">>, rating |-> <<"thumbs_up">>,
        corrected_output |-> None, comment |-> <<"nice">>, user_id |-> <<"u">> ],
      [ trace_id |-> <<"tr-1">>, rating |-> <<"Positive">>,
        corrected_output |-> None, comment |-> None, user_id |-> None ] }

\* the calls not yet returned
InFlight == { t \in Threads : fb_calls[t].pc # "idle" }

\* a call that has returned: what it was given and how it ended (raised: one of
\* its log_feedback calls raised)
Returned(given, kind, value, raised) ==
    [ args |-> given, kind |-> kind, value |-> value, raised |-> raised ]

\* the calls made so far
NumCalls == uuids + Cardinality({ d \in fb_done : d.kind = "error" })

\* lines 160-172: the rating is checked, then the record is built
record_feedback_enter(t, given) ==
    /\ fb_calls[t].pc = "idle"
    /\ NumCalls < MaxFeedback
    /\ IF given.rating \notin valid_ratings
       THEN /\ fb_done' = fb_done \cup { Returned(given, "error", <<"ValueError">>, FALSE) }
            /\ UNCHANGED << fb_calls, uuids >>
       ELSE /\ fb_calls' = [ fb_calls EXCEPT ![t] =
                               [ pc |-> "append", args |-> given, next |-> 1,
                                 record |-> FeedbackRecord(given.trace_id, given.rating,
                                                           given.corrected_output,
                                                           given.comment, given.user_id, now) ] ]
            /\ uuids' = uuids + 1
            /\ UNCHANGED fb_done
    /\ UNCHANGED << _feedback_history, trace_store >>
    /\ UNCHANGED << manager_vars, now, mlflow_enabled, _feedback_enabled, emitted, fb_ret,
                    exporter_vars >>

\* lines 175-179: the append, and the return of a call that finds the trace
\* store unavailable
record_feedback_append(t) ==
    /\ fb_calls[t].pc = "append"
    /\ _feedback_history' = Append(_feedback_history, fb_calls[t].record)
    /\ IF _is_available
       THEN /\ fb_calls' = [ fb_calls EXCEPT ![t].pc = "emit" ]
            /\ UNCHANGED fb_done
       ELSE /\ fb_calls' = [ fb_calls EXCEPT ![t] = NoCall ]
            /\ fb_done' = fb_done \cup { Returned(fb_calls[t].args, "value",
                                                   fb_calls[t].record.feedback_id, FALSE) }
    /\ UNCHANGED << uuids, trace_store >>
    /\ UNCHANGED << manager_vars, now, mlflow_enabled, _feedback_enabled, emitted, fb_ret,
                    exporter_vars >>

\* lines 189-232: the next mlflow.log_feedback call of the record returns; after
\* the last one the method returns the id (line 234)
record_feedback_emit(t) ==
    /\ fb_calls[t].pc = "emit"
    /\ LET calls == log_feedback_calls(fb_calls[t].record)
           n == fb_calls[t].next
       IN  /\ trace_store' = Append(trace_store, calls[n])
           /\ IF n < Len(calls)
              THEN /\ fb_calls' = [ fb_calls EXCEPT ![t].next = n + 1 ]
                   /\ UNCHANGED fb_done
              ELSE /\ fb_calls' = [ fb_calls EXCEPT ![t] = NoCall ]
                   /\ fb_done' = fb_done \cup { Returned(fb_calls[t].args, "value",
                                                          fb_calls[t].record.feedback_id, FALSE) }
    /\ UNCHANGED << _feedback_history, uuids >>
    /\ UNCHANGED << manager_vars, now, mlflow_enabled, _feedback_enabled, emitted, fb_ret,
                    exporter_vars >>

\* lines 236-239: the next mlflow.log_feedback call raises; the handler logs the
\* error and returns the id
record_feedback_emit_raises(t) ==
    /\ fb_calls[t].pc = "emit"
    /\ fb_calls' = [ fb_calls EXCEPT ![t] = NoCall ]
    /\ fb_done' = fb_done \cup { Returned(fb_calls[t].args, "value",
                                           fb_calls[t].record.feedback_id, TRUE) }
    /\ UNCHANGED << _feedback_history, uuids, trace_store >>
    /\ UNCHANGED << manager_vars, now, mlflow_enabled, _feedback_enabled, emitted, fb_ret,
                    exporter_vars >>

ConcurrentNext ==
    \/ \E t \in Threads, given \in Submissions : record_feedback_enter(t, given)
    \/ \E t \in Threads : record_feedback_append(t)
    \/ \E t \in Threads : record_feedback_emit(t)
    \/ \E t \in Threads : record_feedback_emit_raises(t)

ConcurrentSpec == FeedbackInit /\ [][ConcurrentNext]_vars

\* ---------------------------------------------------------------- the history as a log
\* C23: the local history is append-only across record_feedback,
\* get_feedback_history and get_feedback_stats calls: a record_feedback call that
\* returns appends exactly one record, at the end; every record already there
\* keeps its position and its fields; the two queries leave the history as it is.
C23_HistoryAppendOnly ==
    [][ /\ Len(_feedback_history') \in { Len(_feedback_history), Len(_feedback_history) + 1 }
        /\ SubSeq(_feedback_history', 1, Len(_feedback_history)) = _feedback_history
        /\ (Called("record_feedback") /\ fb_ret'.kind = "value")
              => /\ Len(_feedback_history') = Len(_feedback_history) + 1
                 /\ _feedback_history'[Len(_feedback_history')].feedback_id = fb_ret'.value
        /\ (Called("get_feedback_history") \/ Called("get_feedback_stats"))
              => _feedback_history' = _feedback_history
    ]_vars

\* C23 witness: the history was returned newest first while it holds its two
\* records in the order they were submitted in
C23_Witness ==
    /\ fb_ret.op = "get_feedback_history"
    /\ Len(_feedback_history) = 2
    /\ _feedback_history[1].timestamp < _feedback_history[2].timestamp
    /\ fb_ret.value = << _feedback_history[2], _feedback_history[1] >>

\* C27: POST /feedback appends a record to the history only if the trace id
\* starts with "degraded-" or validate_trace_exists returned True for it;
\* otherwise the request fails with 404, record_feedback is not called and the
\* history is unchanged.
C27_UnknownTraceRefused ==
    [][ Called("submit_feedback")
          => LET a == fb_ret'.args
                 response == fb_ret'.value
                 degraded == startswith(a.trace_id, << "degraded-" >>)
             IN  /\ _feedback_history' # _feedback_history
                       => (degraded \/ (a.validated /\ a.trace_exists))
                 /\ (~degraded /\ ~a.trace_exists)
                       => /\ response.status = 404
                          /\ ~response.recorded
                          /\ _feedback_history' = _feedback_history
                          /\ uuids' = uuids
                          /\ emitted' = << >>
                 /\ degraded => ~a.validated
    ]_vars

\* C27 witness: with the trace store enabled and a record in the history, a
\* submission for a trace the store does not have was refused
C27_Witness ==
    /\ mlflow_enabled
    /\ fb_ret.op = "submit_feedback"
    /\ fb_ret.args.trace_id = << "tr-1" >>
    /\ fb_ret.args.rating = << "thumbs_up" >>
    /\ fb_ret.value.status = 404
    /\ Len(_feedback_history) = 1
    /\ _feedback_history[1].trace_id = << "degraded-", "1" >>

\* ---------------------------------------------------------------- concurrent submissions
\* the calls that returned a feedback id
Accepted == { d \in fb_done : d.kind = "value" }

\* where in the history the records with the id are
RecordsWithId(id) == { i \in DOMAIN _feedback_history : _feedback_history[i].feedback_id = id }

\* C24: with concurrent record_feedback calls with valid ratings no record is
\* lost or duplicated: a call that has returned has exactly one record in the
\* history, with the id it returned and the fields it was given; once all calls
\* have returned the history holds one record per call and nothing else; and no
\* call has to wait for another call's emissions before it can append.
C24_NoRecordLostOrDuplicated ==
    /\ \A d \in Accepted :
           /\ Cardinality(RecordsWithId(d.value)) = 1
           /\ \A i \in RecordsWithId(d.value) :
                  /\ _feedback_history[i].trace_id = d.args.trace_id
                  /\ _feedback_history[i].rating = d.args.rating
                  /\ _feedback_history[i].corrected_output = d.args.corrected_output
                  /\ _feedback_history[i].comment = d.args.comment
    /\ InFlight = { }
           => /\ Len(_feedback_history) = Cardinality(Accepted)
              /\ \A i \in DOMAIN _feedback_history :
                     \E d \in Accepted : d.value = _feedback_history[i].feedback_id
    /\ \A t \in Threads : fb_calls[t].pc = "append" => ENABLED record_feedback_append(t)

\* C24 witness: two calls have returned whose emissions went to the trace store
\* in turns, and the history holds their two records
C24_Witness ==
    /\ InFlight = { }
    /\ Cardinality(Accepted) = 2
    /\ Len(_feedback_history) = 2
    /\ Len(trace_store) >= 3
    /\ trace_store[1].feedback_id # trace_store[2].feedback_id
    /\ trace_store[3].feedback_id = trace_store[1].feedback_id

\* the signals a submission stands for: the rating, the corrected output if one
\* was given, the comment if one was given
ExpectedSignals(d) ==
    LET signal(name, value) == [ trace_id |-> d.args.trace_id, name |-> name, value |-> value,
                                 feedback_id |-> d.value ]
    IN  << signal("user_rating", IF d.args.rating = <<"thumbs_up">> THEN <<"True">>
                                                                      ELSE <<"False">>) >>
        \o (IF d.args.corrected_output # None
            THEN << signal("corrected_output", json_dumps(d.args.corrected_output)) >>
            ELSE << >>)
        \o (IF d.args.comment # None THEN << signal("user_comment", d.args.comment) >>
                                     ELSE << >>)

\* the signals in the trace store that carry the id, in the order they arrived in
SignalsOf(id) ==
    LET carries(s) == s.feedback_id = id
        sent == SelectSeq(trace_store, carries)
    IN  [ i \in DOMAIN sent |-> [ trace_id |-> sent[i].trace_id, name |-> sent[i].name,
                                  value |-> sent[i].value, feedback_id |-> sent[i].feedback_id ] ]

\* C25: for a record_feedback call with a valid rating, an available trace store
\* and no log_feedback call that raises, the signals logged are exactly the
\* rating, then the corrected output if and only if one was given, then the
\* comment if and only if one was given, each for the call's trace and with the
\* feedback id of the stored record; and a signal is logged only after its record
\* is in the history.
C25_SignalsInOrderAfterAppend ==
    /\ \A d \in Accepted :
           (_is_available /\ ~d.raised) => SignalsOf(d.value) = ExpectedSignals(d)
    /\ \A i \in DOMAIN trace_store : RecordsWithId(trace_store[i].feedback_id) # { }
    /\ \A t \in Threads :
           fb_calls[t].pc = "append" => SignalsOf(fb_calls[t].record.feedback_id) = << >>

\* C25 witness: a call with a corrected output and a comment has returned after
\* its three signals, while another call is still before its append
C25_Witness ==
    /\ \E d \in Accepted :
           /\ ~d.raised
           /\ d.args.corrected_output # None /\ d.args.comment # None
           /\ Len(SignalsOf(d.value)) = 3
    /\ \E t \in Threads : fb_calls[t].pc = "append"

\* ---------------------------------------------------------------- the manager's later claims
\* C21: a load_model call whose fetch from the artifact store never returns does
\* not stall the cache for ever: every other call, a load_model of another key,
\* invalidate_cache, invalidate_all, get_cache_stats or get_cached_models, gets
\* past the lock in the end.
C21_StalledFetchBlocksNoOne ==
    \A t \in Threads : (pc[t] = "acquire") ~> (pc[t] # "acquire")

\* the thread has taken the lock, made its call and left
CallReturns(t) == pc[t] = "acquire" /\ pc'[t] = "idle"

\* C22: an entry leaves the cache only through a load_model of its key after its
\* expiry, invalidate_cache of its model, or invalidate_all; an expired entry
\* nobody asks for stays, is counted in cached_models and is reported by
\* get_cached_models with is_expired = True; get_cache_stats and
\* get_cached_models change neither the entries nor the counters.
C22_EntriesLeaveOnlyWhenAskedTo ==
    [][ /\ \A k \in DOMAIN cache \ DOMAIN cache' :
               \/ \E t \in Threads :
                      /\ pc[t] = "check" /\ pc'[t] = "fetch"
                      /\ local[t].cache_key = k
                      /\ now - cache[k].loaded_at > cache_ttl
               \/ \E t \in Threads, name \in Names : invalidate_cache(t, name)
               \/ \E t \in Threads : invalidate_all(t)
        /\ \A t \in Threads, name \in Names :
               invalidate_cache(t, name)
                  => \A k \in DOMAIN cache \ DOMAIN cache' : ghost.origin[k].name = name
        /\ now' # now => cache' = cache
        /\ \A t \in Threads :
               (CallReturns(t) /\ ret'.kind \in { "stats", "models" })
                  => /\ cache' = cache /\ stats' = stats
                     /\ ret'.kind = "stats"
                           => ret'.value.cached_models = Cardinality(DOMAIN cache)
                     /\ ret'.kind = "models"
                           => /\ DOMAIN ret'.value = DOMAIN cache
                              /\ \A k \in DOMAIN cache :
                                     ret'.value[k].is_expired
                                        = (now - cache[k].loaded_at > cache_ttl)
    ]_vars

\* C26: once the stage endpoint has returned success for model M no cache entry
\* of M is left, and the next load_model of M by any address goes to the artifact
\* store, also with load_model calls for M running while the stage is moved;
\* the entries of other models stay cached.
C26_TransitionEvictsOnlyThatModel ==
    [][ \A t \in Threads :
          /\ (pc[t] = "invalidate" /\ pc'[t] = "idle")
                => LET M == args[t].name
                   IN  /\ ret'.kind = "success"
                       /\ \A k \in DOMAIN cache' : ghost'.origin[k].name # M
                       /\ \A k \in DOMAIN cache :
                              ghost.origin[k].name # M
                                 => k \in DOMAIN cache' /\ cache'[k] = cache[k]
          /\ (pc[t] = "check" /\ pc'[t] = "idle") => args[t].name \notin ghost.pending
    ]_vars

\* C28: in every state get_cache_stats can observe, total_loads = cache_hits +
\* cache_misses under any interleaving of load_model, invalidate_cache and
\* invalidate_all calls: a load is counted as one hit or one miss before the lock
\* is released, and a load that fails has been counted as a miss.
C28_LoadsAreHitsPlusMisses ==
    /\ ret.kind = "stats"
          => ret.value.total_loads = ret.value.cache_hits + ret.value.cache_misses
    /\ lock = 0 => stats.total_loads = stats.cache_hits + stats.cache_misses
    /\ \A t \in Threads :
          /\ pc[t] = "check" => stats.total_loads = stats.cache_hits + stats.cache_misses + 1
          /\ pc[t] \in { "fetch", "resolve" }
                => stats.total_loads = stats.cache_hits + stats.cache_misses
    /\ stats.cache_misses = ghost.store_calls + Cardinality(Fetching)

\* C28 witness: get_cache_stats reports two loads, both misses and one of them
\* failed, while another thread waits for the lock
C28_Witness ==
    /\ ret.kind = "stats"
    /\ ret.value.total_loads = 2
    /\ ret.value.cache_misses = 2
    /\ ghost.failed
    /\ \E t \in Threads : pc[t] = "acquire"

\* the request is by alias or by stage
ByAliasOrStage(a) == ~Truthy(a.version) /\ (Truthy(a.alias) \/ Truthy(a.stage))

\* C29: for a load by alias or stage the version returned and cached with an
\* artifact is the version the artifact was fetched from, also when the alias or
\* stage is moved to another version while the call is in progress; a later
\* cache hit returns the pair the populating load returned.
C29_VersionIsTheFetchedOne ==
    [][ \A t \in Threads :
          /\ (pc[t] = "resolve" /\ pc'[t] = "idle" /\ ByAliasOrStage(args[t]))
                => /\ ret'.version = ret'.program.version
                   /\ LET entry == cache'[local[t].cache_key]
                      IN  /\ entry.program = ret'.program
                          /\ entry.version = ret'.version
                          /\ entry.version = entry.program.version
          /\ (pc[t] = "check" /\ pc'[t] = "idle")
                => /\ ret'.program = cache[local[t].cache_key].program
                   /\ ret'.version = cache[local[t].cache_key].version
    ]_vars
====
